---------------------------- MODULE Spec2Model ----------------------------
(***************************************************************************)
(* A model of the AI sample searcher (desktop_app): the tempo estimators   *)
(* of the two analysis engines, the incremental indexer and its store, the *)
(* search/filter pass, and the main window's job launching.                *)
(*                                                                         *)
(* Units: a tempo is an integer number of twentieths of a BPM ("ticks") so *)
(* that halving a one-decimal base tempo stays an integer; a stored bpm is *)
(* an integer number of tenths of a BPM (the code rounds to one decimal).  *)
(* Python's None is the empty sequence <<>>, a value v is <<v>>.           *)
(***************************************************************************)
EXTENDS Integers, Sequences, FiniteSets, TLC

VARIABLES
    \* ---- tempo estimation (get_bpm_and_key, get_bpm_and_key_essentia)
    tpc,            \* "idle" | "input" | "done"
    base_bpm,       \* the rhythm algorithm's base tempo, in tenths of a BPM
    tieUp,          \* how round(x, 1) resolves an x.x5 (depends on the float)
    audio_engine,   \* "none" | "librosa" | "essentia": the estimator that ran
    candidates,     \* the candidate list built by the estimator (ticks)
    bpm,            \* the estimator's result: <<>> or <<tenths>>
    audio_ok,       \* the file loads and is at least half a second long
    tempo_raises,   \* the BPM block raises (onset strength, tempo, rhythm extractor)
    \* ---- key estimation (get_bpm_and_key, get_bpm_and_key_essentia)
    kpc,            \* "idle" | "input" | "done"
    key_input,      \* what the estimator computed from the audio
    key,            \* the estimator's result: <<>> or <<"C Maj">>
    key_raises,     \* the key block raises (chroma, HPCP, Key algorithm)
    \* ---- the file system and the store (chromadb collection "samples_library")
    fs,             \* file -> its content, or Absent
    collection,     \* id -> [embedding, document, metadata]
    \* ---- IndexerBackend.run_indexing
    pc,             \* "idle" | "loop" | "done" | "crashed"
    folder_path,    \* the folder as the caller spelled it
    existing_ids,   \* set(self.collection.get()["ids"]) at the scan
    files_to_process,
    i,              \* the loop index (0-based: files_to_process[i+1] is next)
    count,
    percent,        \* the last percentage given to progress_callback, or None
    \* ---- history of the indexing runs
    startStore,     \* the collection when the current run scanned
    flushes,        \* sizes of the collection.add calls of the current run
    addLog,         \* every id ever passed to collection.add, in order
    fsClean,        \* no file changed since the last run ended
    rerun,          \* the current run follows a completed run, nothing changed
    afterCrash,     \* the current run follows a crashed run, nothing changed
    \* ---- the progress reports of one job (run_indexing, BPMReanalysisWorker.run)
    prog_job,       \* "none" | "indexing" | "bpm"
    prog_total,     \* len(files_to_process), total
    prog_done,      \* candidates processed so far (i + 1 after a pass)
    emitted,        \* the last percentage handed to the observer, or None
    emitted_before, \* the one before it, or None
    \* ---- a re-analysis pass (BPMReanalysisWorker.run, analyze_essentia_wsl.main)
    ra_pc,          \* "idle" | "loop" | "done"
    ra_engine,      \* "librosa" | "essentia": the estimator pair of the pass
    force_reanalysis,
    samples_to_analyze, \* the (id, metadata) pairs selected
    ra_i,           \* the loop index (0-based)
    updated,
    batch_updates,  \* the (id, metadata) pairs waiting for collection.update
    \* ---- history of the pass
    ra_start,       \* the collection when the pass selected its samples
    ra_results,     \* what the estimators returned, per sample passed
    ra_flushes,     \* the ids given to each collection.update call of the pass
    \* ---- MainWindow: searching
    engine,         \* self.engine: None, or <<the database the searcher opened>>
    widgets,        \* the values of the search bar, the spin boxes and the filters
    result_list,    \* the items of self.result_list
    searched,       \* result_list is what do_search listed for the widgets as they are
    raised,         \* the last do_search let an exception escape
    \* ---- MainWindow: databases, operation buttons and worker threads
    current_db_path,    \* self.current_db_path
    db_state,           \* per database folder: "missing" | "foreign" | "ready"
    search_bar,         \* self.search_bar.isEnabled()
    status_label,       \* what self.status_label says: "ready" | "running" |
                        \* "success" | "not_found" | "error"
    btn_index,          \* self.btn_index.isEnabled()
    btn_reanalyze,      \* self.btn_reanalyze.isEnabled()
    btn_essentia_wsl,   \* self.btn_essentia_wsl.isEnabled()
    workers             \* the worker threads started and not yet finished

tempoVars == <<tpc, base_bpm, tieUp, audio_engine, candidates, bpm, audio_ok, tempo_raises>>
keyVars == <<kpc, key_input, key, key_raises>>
storeVars == <<fs, collection>>
jobVars == <<pc, folder_path, existing_ids, files_to_process, i, count, percent>>
histVars == <<startStore, flushes, addLog, fsClean, rerun, afterCrash>>
indexVars == <<storeVars, jobVars, histVars>>
raVars == <<ra_pc, ra_engine, force_reanalysis, samples_to_analyze, ra_i, updated,
           batch_updates, ra_start, ra_results, ra_flushes>>
progVars == <<prog_job, prog_total, prog_done, emitted, emitted_before>>

searchVars == <<engine, widgets, result_list, searched, raised>>

uiVars == <<current_db_path, db_state, search_bar, status_label, btn_index, btn_reanalyze, btn_essentia_wsl, workers>>

vars == <<tempoVars, keyVars, indexVars, progVars, raVars, searchVars, uiVars>>

None == <<>>
Some(v) == <<v>>
IsNone(o) == o = <<>>
Val(o) == o[1]

Abs(x) == IF x < 0 THEN -x ELSE x

(***************************************************************************)
(* Tempo: the octave-correction heuristic.                                 *)
(***************************************************************************)

\* A tempo given in tenths of a BPM, in ticks.
Ticks(tenths) == 2 * tenths

\* b BPM in ticks.
BpmTicks(b) == 20 * b

\* (mutant) the doubling threshold taken inclusively
BuildCandidates_Inclusive(base) ==
    LET c1 == <<base>>
        c2 == IF base <= 1600 THEN Append(c1, base * 2) ELSE c1
    IN  IF base > 3200 THEN Append(c2, base \div 2) ELSE c2

\* candidates = [base]; append base*2 if base < 80; append base/2 if base > 160
BuildCandidates(base) ==
    LET c1 == <<base>>
        c2 == IF base < BpmTicks(80) THEN Append(c1, base * 2) ELSE c1
    IN  IF base > BpmTicks(160) THEN Append(c2, base \div 2) ELSE c2

\* (mutant) the lower limit of the band dropped
InBand_NoFloor(b) == b <= 4000

\* valid_candidates = [b for b in candidates if 40 <= b <= 200]
InBand(b) == BpmTicks(40) <= b /\ b <= BpmTicks(200)

ValidCandidates(cands) == SelectSeq(cands, InBand)

\* min(valid_candidates, key=lambda x: abs(x - 120)): the first minimal element
RECURSIVE MinBy120(_)
MinBy120(s) ==
    IF Len(s) = 1 THEN s[1]
    ELSE LET m == MinBy120(Tail(s))
         IN  IF Abs(s[1] - BpmTicks(120)) <= Abs(m - BpmTicks(120)) THEN s[1] ELSE m

\* round(final_bpm, 1): ticks to tenths; an odd tick count is an x.x5, which
\* the float's binary expansion sends up or down.
Round1(t, up) ==
    IF t % 2 = 0 THEN t \div 2
    ELSE IF up THEN (t + 1) \div 2 ELSE (t - 1) \div 2

\* indexer.py get_bpm_and_key, the BPM block.
LibrosaTempo(tenths, up) ==
    LET valid == ValidCandidates(BuildCandidates(Ticks(tenths)))
    IN  IF valid # <<>> THEN Some(Round1(MinBy120(valid), up)) ELSE None

\* (mutant) the base tempo taken as the only candidate
EssentiaTempo_NoOctave(tenths, up) ==
    IF tenths > 0 /\ InBand(Ticks(tenths)) THEN Some(Round1(Ticks(tenths), up)) ELSE None

\* analyze_essentia_wsl.py get_bpm_and_key_essentia, the BPM block.
EssentiaTempo(tenths, up) ==
    IF tenths > 0
    THEN LET valid == ValidCandidates(BuildCandidates(Ticks(tenths)))
         IN  IF valid # <<>> THEN Some(Round1(MinBy120(valid), up)) ELSE None
    ELSE None

\* Bounds of the base tempos tried, in tenths of a BPM.
MaxBaseTenths == 4100
MaxNegTenths == 50

BaseTempos == (0 - MaxNegTenths) .. MaxBaseTenths

TempoIdle ==
    /\ tpc = "idle" /\ base_bpm = 0 /\ tieUp = FALSE
    /\ audio_engine = "none" /\ candidates = <<>> /\ bpm = None
    /\ audio_ok = TRUE /\ tempo_raises = FALSE

TempoInit ==
    /\ tpc = "input"
    /\ base_bpm \in BaseTempos
    /\ tieUp \in BOOLEAN
    /\ audio_engine = "none"
    /\ candidates = <<>>
    /\ bpm = None
    /\ audio_ok = TRUE /\ tempo_raises = FALSE

EstimateLibrosa ==
    /\ tpc = "input"
    /\ tpc' = "done"
    /\ audio_engine' = "librosa"
    /\ candidates' = BuildCandidates(Ticks(base_bpm))
    /\ bpm' = LibrosaTempo(base_bpm, tieUp)
    /\ UNCHANGED <<base_bpm, tieUp, audio_ok, tempo_raises>>

EstimateEssentia ==
    /\ tpc = "input"
    /\ tpc' = "done"
    /\ audio_engine' = "essentia"
    /\ candidates' = IF base_bpm > 0 THEN BuildCandidates(Ticks(base_bpm)) ELSE <<>>
    /\ bpm' = EssentiaTempo(base_bpm, tieUp)
    /\ UNCHANGED <<base_bpm, tieUp, audio_ok, tempo_raises>>

TempoNext ==
    \/ EstimateLibrosa /\ UNCHANGED <<keyVars, progVars, raVars, indexVars, searchVars, uiVars>>
    \/ EstimateEssentia /\ UNCHANGED <<keyVars, progVars, raVars, indexVars, searchVars, uiVars>>

(***************************************************************************)
(* Key: the profile correlation of get_bpm_and_key and the Key algorithm   *)
(* of get_bpm_and_key_essentia.  A correlation or strength is an integer   *)
(* number of hundredths.                                                   *)
(***************************************************************************)

pitch_classes == <<"C", "C#", "D", "D#", "E", "F", "F#", "G", "G#", "A", "A#", "B">>

\* The 24 entries of `correlations` in the order the loop appends them:
\* (pitch_classes[i], 'Maj', corr_maj), (pitch_classes[i], 'Min', corr_min).
Candidates == 1..(2 * Len(pitch_classes))
CandidatePitch(n) == pitch_classes[((n - 1) \div 2) + 1]
CandidateMode(n) == IF n % 2 = 1 THEN "Maj" ELSE "Min"

\* The order in which the loop `for i in range(12)` appends the entries.
LoopOrder == [n \in Candidates |-> n]

\* The same loop started at rotation `first` and wrapping round.
RotatedOrder(first) ==
    [n \in Candidates |-> ((n - 1 + 2 * first) % (2 * Len(pitch_classes))) + 1]

\* max(correlations, key=lambda x: x[2]) over entries listed in `order`:
\* the first entry that no other entry exceeds.
BestMatch(corr, order) ==
    LET k == CHOOSE a \in Candidates :
                 /\ \A b \in Candidates : corr[order[b]] <= corr[order[a]]
                 /\ \A b \in 1..(a - 1) : corr[order[b]] < corr[order[a]]
    IN  order[k]

\* (mutant) a best score of exactly 0.5 accepted
Confident_Inclusive(score) == score >= 50

\* best_match[2] > 0.5, strength > 0.5
Confident(score) == score > 50

\* f"{best_match[0]} {best_match[1]}"
KeyName(n) == CandidatePitch(n) \o " " \o CandidateMode(n)

\* The key block of get_bpm_and_key with the entries listed in `order`.
LibrosaKeyIn(input, order) ==
    IF input.flat THEN None
    ELSE LET best == BestMatch(input.corr, order)
         IN  IF Confident(input.corr[best]) THEN Some(KeyName(best)) ELSE None

\* The key block of get_bpm_and_key.
LibrosaKey(input) == LibrosaKeyIn(input, LoopOrder)

\* The key block of get_bpm_and_key_essentia.
EssentiaKey(input) ==
    IF ~input.peaks THEN None
    ELSE IF Confident(input.strength)
         THEN Some(input.key \o " " \o (IF input.scale = "major" THEN "maj" ELSE "min"))
         ELSE None

\* Bounds: the correlation of the candidates that do not stand out, and the
\* highest score tried.
FloorScore == 10
MaxScore == 80

Scores == {30, 50, 51, MaxScore}

\* A chroma whose correlations stand out at the candidates a and b.
Correlations(a, va, b, vb) ==
    [n \in Candidates |-> IF n = b THEN vb ELSE IF n = a THEN va ELSE FloorScore]

\* What librosa computed: np.std(chroma_mean) < 1e-6, or the 24 correlations.
LibrosaInputs ==
    {[engine |-> "librosa", flat |-> TRUE, corr |-> [n \in Candidates |-> 0]]}
    \cup {[engine |-> "librosa", flat |-> FALSE, corr |-> Correlations(a, va, b, vb)] :
            a \in {1, 2, 15}, va \in Scores, b \in Candidates, vb \in Scores}

\* What essentia computed: no frame with spectral peaks, or the Key result.
EssentiaInputs ==
    {[engine |-> "essentia", peaks |-> FALSE, key |-> "", scale |-> "", strength |-> 0]}
    \cup {[engine |-> "essentia", peaks |-> TRUE, key |-> k, scale |-> sc, strength |-> st] :
            k \in {"C", "F#"}, sc \in {"major", "minor"}, st \in Scores}

KeyIdle == kpc = "idle" /\ key_input = None /\ key = None /\ key_raises = FALSE

KeyInit ==
    /\ kpc = "input"
    /\ key_input \in LibrosaInputs \cup EssentiaInputs
    /\ key = None
    /\ key_raises = FALSE

DetectKeyLibrosa ==
    /\ kpc = "input" /\ key_input.engine = "librosa"
    /\ kpc' = "done"
    /\ key' = LibrosaKey(key_input)
    /\ UNCHANGED <<key_input, key_raises>>

DetectKeyEssentia ==
    /\ kpc = "input" /\ key_input.engine = "essentia"
    /\ kpc' = "done"
    /\ key' = EssentiaKey(key_input)
    /\ UNCHANGED <<key_input, key_raises>>

KeyNext ==
    \/ DetectKeyLibrosa /\ UNCHANGED <<tempoVars, progVars, raVars, indexVars, searchVars, uiVars>>
    \/ DetectKeyEssentia /\ UNCHANGED <<tempoVars, progVars, raVars, indexVars, searchVars, uiVars>>

(***************************************************************************)
(* One analysis of a file: get_bpm_and_key, get_bpm_and_key_essentia.      *)
(***************************************************************************)

\* (mutant) the two blocks under one try: a failure of either gives up both
get_bpm_and_key_OneTry(ok, t_raises, k_raises, base, up, input) ==
    IF ~ok \/ t_raises \/ k_raises THEN <<None, None>>
    ELSE <<LibrosaTempo(base, up), LibrosaKey(input)>>

\* get_bpm_and_key: (None, None) when the load fails or the clip is short;
\* else each block's result, None for a block that raised.
get_bpm_and_key(ok, t_raises, k_raises, base, up, input) ==
    IF ~ok THEN <<None, None>>
    ELSE <<IF t_raises THEN None ELSE LibrosaTempo(base, up),
           IF k_raises THEN None ELSE LibrosaKey(input)>>

\* get_bpm_and_key_essentia: the same structure over the essentia blocks.
get_bpm_and_key_essentia(ok, t_raises, k_raises, base, up, input) ==
    IF ~ok THEN <<None, None>>
    ELSE <<IF t_raises THEN None ELSE EssentiaTempo(base, up),
           IF k_raises THEN None ELSE EssentiaKey(input)>>

\* The base tempos and the key computations of the files analysed.
AnalysisTempos == {0, 700, 1200, 3000, MaxBaseTenths}

AnalysisKeyInputs ==
    EssentiaInputs
    \cup {inp \in LibrosaInputs : inp.flat}
    \cup {[engine |-> "librosa", flat |-> FALSE, corr |-> Correlations(1, va, 15, 30)] :
            va \in Scores}

\* A file about to be analysed, with what its analysis will meet.
AnalysisInit ==
    /\ tpc = "input" /\ kpc = "input"
    /\ base_bpm \in AnalysisTempos
    /\ tieUp = FALSE
    /\ audio_engine = "none" /\ candidates = <<>>
    /\ bpm = None /\ key = None
    /\ audio_ok \in BOOLEAN /\ tempo_raises \in BOOLEAN /\ key_raises \in BOOLEAN
    /\ key_input \in AnalysisKeyInputs

AnalyzeLibrosa ==
    /\ tpc = "input" /\ kpc = "input" /\ key_input.engine = "librosa"
    /\ LET r == get_bpm_and_key(audio_ok, tempo_raises, key_raises, base_bpm, tieUp,
                                 key_input)
       IN  bpm' = r[1] /\ key' = r[2]
    /\ tpc' = "done" /\ kpc' = "done"
    /\ audio_engine' = "librosa"
    /\ UNCHANGED <<base_bpm, tieUp, candidates, audio_ok, tempo_raises, key_input, key_raises>>

AnalyzeEssentia ==
    /\ tpc = "input" /\ kpc = "input" /\ key_input.engine = "essentia"
    /\ LET r == get_bpm_and_key_essentia(audio_ok, tempo_raises, key_raises, base_bpm,
                                          tieUp, key_input)
       IN  bpm' = r[1] /\ key' = r[2]
    /\ tpc' = "done" /\ kpc' = "done"
    /\ audio_engine' = "essentia"
    /\ UNCHANGED <<base_bpm, tieUp, candidates, audio_ok, tempo_raises, key_input, key_raises>>

AnalysisNext ==
    \/ AnalyzeLibrosa /\ UNCHANGED <<progVars, raVars, indexVars, searchVars, uiVars>>
    \/ AnalyzeEssentia /\ UNCHANGED <<progVars, raVars, indexVars, searchVars, uiVars>>

(***************************************************************************)
(* The file system, paths and the store.                                   *)
(***************************************************************************)

\* Bound: the files that can exist in the sample folder.
NFiles == 3

\* indexer.py: MAX_DURATION = 10.0 (seconds)
MAX_DURATION == 10

Files == 1..NFiles

\* The files' names, in the order os.walk lists them.
FileNames ==
    <<"kick.wav", "Snare.WAV", "notes.txt", "bass.mp3", "pad.FLAC", "hat.ogg",
      "clap.aiff", "vox.m4a">>

FileName(f) == FileNames[((f - 1) % Len(FileNames)) + 1]

\* os.path.splitext(name)[1] without the dot
ExtOf(name) ==
    CASE name = "kick.wav" -> "wav"
      [] name = "Snare.WAV" -> "WAV"
      [] name = "bass.mp3" -> "mp3"
      [] name = "notes.txt" -> "txt"
      [] name = "pad.FLAC" -> "FLAC"
      [] name = "hat.ogg" -> "ogg"
      [] name = "clap.aiff" -> "aiff"
      [] OTHER -> "m4a"

\* str.lower() on the extensions in use
Lower(ext) ==
    CASE ext = "WAV" -> "wav"
      [] ext = "FLAC" -> "flac"
      [] OTHER -> ext

\* the tuple given to endswith() in run_indexing
SupportedExts == {"wav", "mp3", "aif", "aiff", "flac", "ogg", "opus", "m4a", "aac"}

\* (mutant) the extension compared without lowering the name
HasAudioExt_CaseSensitive(name) == ExtOf(name) \in SupportedExts

\* file.lower().endswith(('.wav', '.mp3', ...))
HasAudioExt(name) == Lower(ExtOf(name)) \in SupportedExts

\* The directory of a file below the folder: every second file is in "sub".
FileDir(f) == IF f % 2 = 0 THEN <<"sub">> ELSE <<>>

\* A path is the sequence of its components.
\* os.path.join(root, file), root being the walked folder plus the subdirectory
FullPath(folder, f) == folder \o FileDir(f) \o <<FileName(f)>>

\* (mutant) the path left as os.path.join built it
Normpath_Identity(p) == p

\* os.path.normpath: "." and empty components dropped, "x/.." collapsed
RECURSIVE NormStack(_, _)
NormStack(stack, rest) ==
    IF rest = <<>> THEN stack
    ELSE LET c == Head(rest) IN
         IF c = "." \/ c = "" THEN NormStack(stack, Tail(rest))
         ELSE IF c = ".." /\ stack # <<>> /\ stack[Len(stack)] # ".."
              THEN NormStack(SubSeq(stack, 1, Len(stack) - 1), Tail(rest))
              ELSE NormStack(Append(stack, c), Tail(rest))

Normpath(p) == NormStack(<<>>, p)

\* The spellings under which the caller names the one sample folder.
FolderSpellings == {<<"lib">>, <<"lib", ".", "x", "..">>}

\* A file's content, as far as the indexer observes it: what the duration
\* probe reads (durKnown FALSE: the probe fails or finds no info) and the
\* embedding the model computes (None: decoding or inference fails).
Absent == [present |-> FALSE]

Contents ==
    [present : {TRUE}, durKnown : {TRUE}, dur : {0, MAX_DURATION, MAX_DURATION + 1},
     vector : {Some(1)}]
    \cup [present : {TRUE}, durKnown : {TRUE}, dur : {MAX_DURATION}, vector : {None}]
    \cup [present : {TRUE}, durKnown : {FALSE}, dur : {0}, vector : {Some(1)}]

\* The extensions get_duration probes (wave for .wav, mutagen for the rest).
ProbedExts == {"wav", "mp3", "aif", "aiff", "flac", "ogg", "opus", "m4a", "aac"}

\* What a file of the given name can hold: a file that is no audio file is
\* never probed (get_duration returns None) and does not decode.
FileStates(f) ==
    IF Lower(ExtOf(FileName(f))) \in ProbedExts
    THEN {Absent} \cup Contents
    ELSE {Absent, [present |-> TRUE, durKnown |-> FALSE, dur |-> 0, vector |-> None]}

\* get_duration: None when the probe fails, else the length in seconds
get_duration(c) == IF c.durKnown THEN Some(c.dur) ELSE None

\* (mutant) a vector made up where decoding or inference failed
get_audio_embedding_NeverNone(c) == IF c.present /\ c.vector # None THEN c.vector ELSE Some(0)

\* get_audio_embedding: the vector, or None on any exception
get_audio_embedding(c) == IF c.present THEN c.vector ELSE None

EmptyStore == [x \in {} |-> x]

Ids(coll) == DOMAIN coll

(***************************************************************************)
(* IndexerBackend.run_indexing                                             *)
(***************************************************************************)

\* (mutant) the ceiling not applied
DurationOk_NoCeiling(d) == d # None

\* (mutant) a failed probe let through
DurationOk_UnknownPasses(d) == d = None \/ Val(d) <= MAX_DURATION

\* duration is not None and duration <= MAX_DURATION
DurationOk(d) == d # None /\ Val(d) <= MAX_DURATION

\* (mutant) the existing ids not consulted
IsCandidate_NoDedup(folder, f, existing) ==
    /\ fs[f].present
    /\ HasAudioExt(FileName(f))
    /\ DurationOk(get_duration(fs[f]))

\* The conditions of the scan loop under which full_path is appended.
IsCandidate(folder, f, existing) ==
    /\ fs[f].present
    /\ HasAudioExt(FileName(f))
    /\ Normpath(FullPath(folder, f)) \notin existing
    /\ DurationOk(get_duration(fs[f]))

\* files_to_process after the os.walk loop, in walk order
RECURSIVE ScanFrom(_, _, _)
ScanFrom(folder, f, existing) ==
    IF f > NFiles THEN <<>>
    ELSE (IF IsCandidate(folder, f, existing)
          THEN <<Normpath(FullPath(folder, f))>> ELSE <<>>)
         \o ScanFrom(folder, f + 1, existing)

\* The file a path of files_to_process names.
FileAt(folder, path) ==
    CHOOSE f \in Files : Normpath(FullPath(folder, f)) = path

\* os.path.basename(filepath)
Basename(path) == path[Len(path)]

\* What get_bpm_and_key can return for a file at indexing time: the tempo
\* estimate over a few bases (or none: clip too short, load failure), and a
\* key or none.
IndexOutcomes == {[base |-> 0, key |-> None], [base |-> 700, key |-> Some("C Maj")]}

\* the metadata dict of run_indexing
Metadata(filepath, b, k) ==
    [filename |-> Basename(filepath),
     bpm |-> IF b # None THEN Val(b) ELSE 0,
     key |-> IF k # None THEN Val(k) ELSE "",
     analysis_engine |-> "librosa"]

\* (mutant) the record built but not handed to the store
AddBatch_Dropped(filepath, vector, metadata) == <<>>

\* The arguments of the collection.add call: one-element lists.
AddBatch(filepath, vector, metadata) ==
    <<[id |-> filepath, embedding |-> Val(vector), document |-> filepath,
       metadata |-> metadata]>>

\* collection.add: the records of the batch stored under their ids (an id
\* already present keeps its record).
RECURSIVE CollectionAdd(_, _)
CollectionAdd(coll, batch) ==
    IF batch = <<>> THEN coll
    ELSE LET r == Head(batch)
             rec == [embedding |-> r.embedding, document |-> r.document,
                     metadata |-> r.metadata]
         IN  CollectionAdd(IF r.id \in DOMAIN coll THEN coll
                           ELSE (r.id :> rec) @@ coll, Tail(batch))

\* ((i+1)/total)*100 in double precision falls just below the exact integer
\* for these (i+1, total), and nowhere else for a total up to 200.
FloatShortfall(done, total) ==
    IF <<done, total>> \in {<<29, 50>>, <<29, 100>>, <<57, 100>>, <<58, 100>>,
                            <<87, 150>>, <<58, 200>>, <<114, 200>>, <<116, 200>>}
    THEN 1 ELSE 0

\* (mutant) the percentage of the passes before this one
Percent_ZeroBased(done, total) == (100 * (done - 1)) \div total

\* (mutant) the percentage rounded to the nearest integer
Percent_Rounded(done, total) == (200 * done + total) \div (2 * total)

\* int(((i+1)/len(files_to_process))*100), int(((i + 1) / total) * 100)
Percent(done, total) == ((100 * done) \div total) - FloatShortfall(done, total)

\* Bound: the candidates of one job.
MaxTotal == 50

ProgressIdle ==
    /\ prog_job = "none" /\ prog_total = 0 /\ prog_done = 0
    /\ emitted = None /\ emitted_before = None

\* A job that found prog_total candidates is about to enter its loop.
ProgressInit ==
    /\ prog_job \in {"indexing", "bpm"}
    /\ prog_total \in 1..MaxTotal
    /\ prog_done = 0
    /\ emitted = None /\ emitted_before = None

\* The end of one pass of a loop: the percentage goes to the observer,
\* whatever became of the candidate.
Report(job) ==
    /\ prog_job = job
    /\ prog_done < prog_total
    /\ prog_done' = prog_done + 1
    /\ emitted' = Some(Percent(prog_done + 1, prog_total))
    /\ emitted_before' = emitted
    /\ UNCHANGED <<prog_job, prog_total>>

\* run_indexing: `if progress_callback:` after the `if vector:` block
ReportIndexing == Report("indexing")

\* BPMReanalysisWorker.run: self.progress.emit after the try block
ReportReanalysis == Report("bpm")

ProgressNext ==
    \/ ReportIndexing /\ UNCHANGED <<tempoVars, keyVars, indexVars, raVars, searchVars, uiVars>>
    \/ ReportReanalysis /\ UNCHANGED <<tempoVars, keyVars, indexVars, raVars, searchVars, uiVars>>

IndexIdle ==
    /\ fs = [f \in Files |-> Absent]
    /\ collection = EmptyStore
    /\ pc = "idle" /\ folder_path = <<>> /\ existing_ids = {}
    /\ files_to_process = <<>> /\ i = 0 /\ count = 0 /\ percent = None
    /\ startStore = EmptyStore /\ flushes = <<>> /\ addLog = <<>>
    /\ fsClean = FALSE /\ rerun = FALSE /\ afterCrash = FALSE

\* A fresh store and an empty sample folder.
IndexInit == IndexIdle

\* run_indexing up to the loop: the existing ids are read and the folder is
\* walked.  A run with nothing to process returns at once.
Scan(folder) ==
    /\ pc \in {"idle", "done", "crashed"}
    /\ LET existing == Ids(collection)
           todo == ScanFrom(folder, 1, existing)
       IN  /\ existing_ids' = existing
           /\ files_to_process' = todo
           /\ pc' = IF todo = <<>> THEN "done" ELSE "loop"
           /\ fsClean' = (todo = <<>>)
    /\ folder_path' = folder
    /\ i' = 0
    /\ count' = 0
    /\ percent' = None
    /\ startStore' = collection
    /\ flushes' = <<>>
    /\ rerun' = (pc = "done" /\ fsClean)
    /\ afterCrash' = (pc = "crashed" /\ fsClean)
    /\ UNCHANGED <<fs, collection, addLog>>

\* One iteration of the indexing loop: embed, analyse, add, count, report.
IndexFile ==
    /\ pc = "loop"
    /\ i < Len(files_to_process)
    /\ LET filepath == files_to_process[i + 1]
           vector == get_audio_embedding(fs[FileAt(folder_path, filepath)])
       IN  IF vector # None
           THEN \E o \in IndexOutcomes :
                  LET b == LibrosaTempo(o.base, TRUE)
                      batch == AddBatch(filepath, vector, Metadata(filepath, b, o.key))
                  IN  /\ collection' = CollectionAdd(collection, batch)
                      /\ flushes' = Append(flushes, Len(batch))
                      /\ addLog' = addLog \o [n \in 1..Len(batch) |-> batch[n].id]
                      /\ count' = count + 1
           ELSE UNCHANGED <<collection, flushes, addLog, count>>
    /\ percent' = Some(Percent(i + 1, Len(files_to_process)))
    /\ i' = i + 1
    /\ pc' = IF i + 1 = Len(files_to_process) THEN "done" ELSE "loop"
    /\ fsClean' = (i + 1 = Len(files_to_process))
    /\ UNCHANGED <<fs, folder_path, existing_ids, files_to_process, startStore,
                   rerun, afterCrash>>

\* The job dies inside the loop (the process is killed, the store throws):
\* nothing is persisted about the job, the records written stay.
Crash ==
    /\ pc = "loop"
    /\ pc' = "crashed"
    /\ fsClean' = TRUE
    /\ UNCHANGED <<fs, collection, folder_path, existing_ids, files_to_process, i,
                   count, percent, startStore, flushes, addLog, rerun, afterCrash>>

\* Between runs the user adds, replaces or removes a file of the folder.
ChangeFile(f, c) ==
    /\ pc \in {"idle", "done", "crashed"}
    /\ c # fs[f]
    /\ fs' = [fs EXCEPT ![f] = c]
    /\ fsClean' = FALSE
    /\ UNCHANGED <<collection, jobVars, startStore, flushes, addLog, rerun, afterCrash>>

(***************************************************************************)
(* Re-analysis: BPMReanalysisWorker.run (librosa) and the main of          *)
(* analyze_essentia_wsl.py (essentia), over a store that the indexer of    *)
(* desktop_app and the script src/src/indexer.py have filled.              *)
(***************************************************************************)

\* Bound: the sample files the store can hold records of.
NSamples == 1

\* Bound: the records the indexers put into the store.
MaxRecords == 1

\* src/src/indexer.py: DEFAULT_FOLDER = "./my_samples", walked as it is spelled
SAMPLE_FOLDER == <<".", "lib">>

Samples == 1..NSamples

\* metadata.get(field, default)
MetaGet(md, field, default) == IF field \in DOMAIN md THEN md[field] ELSE default

\* metadata[field] = value
MetaPut(md, field, value) ==
    [x \in DOMAIN md \cup {field} |-> IF x = field THEN value ELSE md[x]]

\* The tempo (in tenths) an engine finds for a sample where it finds one: the
\* two rhythm algorithms do not agree to the tenth.
FoundBpm(eng) == IF eng = "librosa" THEN 850 ELSE 851

\* What the estimator pair of an engine can return for a sample: a bpm (in
\* tenths) or none, a key or none.
AnalysisResults(eng) ==
    {[bpm |-> b, key |-> k] :
        b \in {None, Some(FoundBpm(eng))},
        k \in {None, Some(IF eng = "librosa" THEN "A Min" ELSE "A min")}}

\* The selection of a pass: the force flag, or no bpm, or no key, or (essentia
\* only) a record that librosa analysed.
Selected(eng, force, md) ==
    \/ force
    \/ (eng = "essentia" /\ MetaGet(md, "analysis_engine", "") = "librosa")
    \/ MetaGet(md, "bpm", 0) = 0
    \/ MetaGet(md, "key", "") = ""

\* The ids of a store in the order collection.get() lists them.
RECURSIVE IdSeq(_)
IdSeq(ids) ==
    IF ids = {} THEN <<>>
    ELSE LET first == CHOOSE a \in ids : \A b \in ids : Len(a) <= Len(b)
         IN  <<first>> \o IdSeq(ids \ {first})

\* The place of the record id in what collection.get() returns: the records
\* come by the file they were made from, those of one file in IdSeq order.
GetRank(coll, id) ==
    LET same == IdSeq({b \in DOMAIN coll : coll[b].embedding = coll[id].embedding})
    IN  Cardinality({b \in DOMAIN coll : coll[b].embedding < coll[id].embedding})
            + (CHOOSE n \in 1..Len(same) : same[n] = id)

\* all_samples.get('ids', []) of collection.get()
GetIds(coll) ==
    LET ranked == {<<GetRank(coll, id), id>> : id \in DOMAIN coll}
    IN  [n \in 1..Cardinality(DOMAIN coll) |-> (CHOOSE p \in ranked : p[1] = n)[2]]

\* samples_to_analyze of a pass over coll
SelectSamples(eng, force, coll) ==
    LET all == GetIds(coll)
        chosen == SelectSeq(all, LAMBDA id : Selected(eng, force, coll[id].metadata))
    IN  [k \in 1..Len(chosen) |-> [id |-> chosen[k], metadata |-> coll[chosen[k]].metadata]]

\* `if bpm is not None and bpm > 0`
BpmFound(r) == r.bpm # None /\ Val(r.bpm) > 0

\* (mutant) the update built as a fresh dict of the analysed fields
Merged_Fresh(eng, md, r) ==
    [bpm |-> IF BpmFound(r) THEN Val(r.bpm) ELSE MetaGet(md, "bpm", 0),
     key |-> IF r.key # None THEN Val(r.key) ELSE MetaGet(md, "key", ""),
     analysis_engine |-> eng]

\* The metadata dict after the merge of the results and the engine stamp.
Merged(eng, md, r) ==
    LET m1 == IF BpmFound(r) THEN MetaPut(md, "bpm", Val(r.bpm)) ELSE md
        m2 == IF r.key # None THEN MetaPut(m1, "key", Val(r.key)) ELSE m1
    IN  MetaPut(m2, "analysis_engine", eng)

\* `if updated_something:` (librosa), `if updated_something or args.force:`
QueuedForUpdate(eng, force, r) ==
    \/ BpmFound(r)
    \/ r.key # None
    \/ (eng = "essentia" /\ force)

\* collection.update(ids=ids, metadatas=metas)
CollectionUpdate(coll, batch) ==
    [id \in DOMAIN coll |->
        LET at == {n \in 1..Len(batch) : batch[n].id = id}
        IN  IF at = {} THEN coll[id]
            ELSE LET last == CHOOSE n \in at : \A k \in at : k <= n
                 IN  [coll[id] EXCEPT !.metadata = batch[last].metadata]]

\* app.py: "if len(batch_updates) >= 50" (the re-analysis batch; run_indexing
\* has no batch)
BATCH_SIZE == 50

\* The id the indexers give the record of sample f.
SampleId(f) == Normpath(FullPath(<<"lib">>, f))

ReanalysisIdle ==
    /\ ra_pc = "idle" /\ ra_engine = "librosa" /\ force_reanalysis = FALSE
    /\ samples_to_analyze = <<>> /\ ra_i = 0 /\ updated = 0 /\ batch_updates = <<>>
    /\ ra_start = EmptyStore /\ ra_results = <<>> /\ ra_flushes = <<>>

\* A run of run_indexing whose only new candidate is sample f.
IndexNewSample(f, o) ==
    /\ ra_pc \in {"idle", "done"}
    /\ Cardinality(DOMAIN collection) < MaxRecords
    /\ SampleId(f) \notin DOMAIN collection
    /\ collection' = CollectionAdd(collection,
                         AddBatch(SampleId(f), Some(f),
                                  Metadata(SampleId(f), LibrosaTempo(o.base, TRUE), o.key)))
    /\ UNCHANGED raVars

\* A run of the script src/src/indexer.py, SAMPLE_FOLDER spelled as folder,
\* whose only new candidate is sample f: the id is the joined path as it is,
\* and the record carries the filename alone.
LegacyIndexNewSample(folder, f) ==
    /\ ra_pc \in {"idle", "done"}
    /\ Cardinality(DOMAIN collection) < MaxRecords
    /\ FullPath(folder, f) \notin DOMAIN collection
    /\ collection' = CollectionAdd(collection,
                         AddBatch(FullPath(folder, f), Some(f),
                                  [filename |-> Basename(FullPath(folder, f))]))
    /\ UNCHANGED raVars

\* A pass starts: the samples are fetched and selected; with none selected
\* the pass is over.
StartPass(eng, force) ==
    /\ ra_pc \in {"idle", "done"}
    /\ DOMAIN collection # {}
    /\ ra_engine' = eng
    /\ force_reanalysis' = force
    /\ samples_to_analyze' = SelectSamples(eng, force, collection)
    /\ ra_pc' = IF samples_to_analyze' = <<>> THEN "done" ELSE "loop"
    /\ ra_i' = 0 /\ updated' = 0 /\ batch_updates' = <<>>
    /\ ra_start' = collection /\ ra_results' = <<>> /\ ra_flushes' = <<>>
    /\ UNCHANGED collection

\* The ids of a batch, as collection.update gets them.
BatchIds(batch) == [n \in 1..Len(batch) |-> batch[n].id]

\* (mutant) no flush inside the loop
BatchFull_Never(n) == FALSE

\* `if len(batch_updates) >= 50`
BatchFull(n) == n >= BATCH_SIZE

\* One pass of the loop with the estimators returning r; after the last
\* sample the remaining batch is written.
AnalyzeSample(r) ==
    /\ ra_pc = "loop"
    /\ LET s == samples_to_analyze[ra_i + 1]
           md == Merged(ra_engine, s.metadata, r)
           queued == QueuedForUpdate(ra_engine, force_reanalysis, r)
           batch1 == IF queued THEN Append(batch_updates, [id |-> s.id, metadata |-> md])
                     ELSE batch_updates
           full == queued /\ BatchFull(Len(batch1))
           coll1 == IF full THEN CollectionUpdate(collection, batch1) ELSE collection
           batch2 == IF full THEN <<>> ELSE batch1
           flushes1 == IF full THEN Append(ra_flushes, BatchIds(batch1)) ELSE ra_flushes
           last == ra_i + 1 = Len(samples_to_analyze)
           final == last /\ batch2 # <<>>
       IN  /\ samples_to_analyze' = [samples_to_analyze EXCEPT ![ra_i + 1].metadata = md]
           /\ updated' = IF queued THEN updated + 1 ELSE updated
           /\ collection' = IF final THEN CollectionUpdate(coll1, batch2) ELSE coll1
           /\ batch_updates' = IF final THEN <<>> ELSE batch2
           /\ ra_flushes' = IF final THEN Append(flushes1, BatchIds(batch2)) ELSE flushes1
           /\ ra_pc' = IF last THEN "done" ELSE "loop"
    /\ ra_results' = Append(ra_results, r)
    /\ ra_i' = ra_i + 1
    /\ UNCHANGED <<ra_engine, force_reanalysis, ra_start>>

\* An empty store, no pass started.
ReanalysisInit == ReanalysisIdle /\ IndexIdle

ReanalysisNext ==
    \/ /\ \E f \in Samples : \E o \in IndexOutcomes : IndexNewSample(f, o)
       /\ UNCHANGED <<tempoVars, keyVars, fs, jobVars, histVars, progVars, searchVars, uiVars>>
    \/ /\ \E f \in Samples : LegacyIndexNewSample(SAMPLE_FOLDER, f)
       /\ UNCHANGED <<tempoVars, keyVars, fs, jobVars, histVars, progVars, searchVars, uiVars>>
    \/ /\ \E eng \in {"librosa", "essentia"} : \E force \in BOOLEAN : StartPass(eng, force)
       /\ UNCHANGED <<tempoVars, keyVars, fs, jobVars, histVars, progVars, searchVars, uiVars>>
    \/ /\ \E r \in AnalysisResults(ra_engine) : AnalyzeSample(r)
       /\ UNCHANGED <<tempoVars, keyVars, fs, jobVars, histVars, progVars, searchVars, uiVars>>

\* Bound: the records of the largest library a pass goes over.
MaxPass == 101

\* The sizes of the libraries passed over.
PassSizes == {1, BATCH_SIZE - 1, BATCH_SIZE, BATCH_SIZE + 1, MaxPass}

\* The id of the k-th sample of such a library.
PackId(k) == <<"lib", ToString(k) \o ".wav">>

\* A library of n samples as run_indexing leaves it when no tempo and no key
\* was found at indexing time.
PackLibrary(n) ==
    [id \in {PackId(k) : k \in 1..n} |->
        LET k == CHOOSE j \in 1..n : PackId(j) = id
        IN  [embedding |-> k, document |-> id, metadata |-> Metadata(id, None, None)]]

\* What the estimators return for the k-th sample: nothing for a file that
\* is gone or too short, a tempo alone for an unpitched one, else both.
EstimatesFor(eng, k) ==
    LET found == CHOOSE r \in AnalysisResults(eng) : r.bpm # None /\ r.key # None
    IN  CASE k % 7 = 0 -> [bpm |-> None, key |-> None]
          [] k % 7 = 1 -> [found EXCEPT !.key = None]
          [] OTHER -> found

\* A library about to be re-analysed.
PassInit ==
    /\ ReanalysisIdle
    /\ fs = [f \in Files |-> Absent]
    /\ \E n \in PassSizes : collection = PackLibrary(n)
    /\ pc = "idle" /\ folder_path = <<>> /\ existing_ids = {}
    /\ files_to_process = <<>> /\ i = 0 /\ count = 0 /\ percent = None
    /\ startStore = EmptyStore /\ flushes = <<>> /\ addLog = <<>>
    /\ fsClean = FALSE /\ rerun = FALSE /\ afterCrash = FALSE

\* The loop pass for the next sample of the library.
AnalyzeNext ==
    /\ ra_pc = "loop"
    /\ AnalyzeSample(EstimatesFor(ra_engine,
                                  collection[samples_to_analyze[ra_i + 1].id].embedding))

PassNext ==
    \/ /\ \E eng \in {"librosa", "essentia"} : \E force \in BOOLEAN : StartPass(eng, force)
       /\ UNCHANGED <<tempoVars, keyVars, fs, jobVars, histVars, progVars, searchVars, uiVars>>
    \/ /\ AnalyzeNext
       /\ UNCHANGED <<tempoVars, keyVars, fs, jobVars, histVars, progVars, searchVars, uiVars>>

(***************************************************************************)
(* Searching: SampleSearcher.search, MainWindow.apply_filters, do_search.  *)
(* A distance is an integer number of fiftieths, so that the similarity    *)
(* (1 - d/2) * 100 is 100 minus the distance; a bpm is in tenths.          *)
(***************************************************************************)

\* Bound: the records of the library searched.
NRecords == 5

\* The audio files of the library searched, by file number.
LibraryFiles == <<1, 2, 4, 5, 6, 7, 8>>

\* What the analysis passes left in the records' metadata.
LibraryMeta(f) ==
    CASE f = 1 -> [bpm |-> 0, key |-> "", analysis_engine |-> "librosa"]
      [] f = 2 -> [bpm |-> 900, key |-> "C Maj", analysis_engine |-> "librosa"]
      [] f = 4 -> [bpm |-> 1250, key |-> "C maj", analysis_engine |-> "essentia"]
      [] f = 5 -> [bpm |-> 1200, key |-> "A min", analysis_engine |-> "essentia"]
      [] f = 6 -> [bpm |-> 1400, key |-> "", analysis_engine |-> "librosa"]
      [] f = 7 -> [bpm |-> 0, key |-> "C maj", analysis_engine |-> "essentia"]
      [] OTHER -> [bpm |-> 850, key |-> "C maj", analysis_engine |-> "essentia"]

LibraryId(f) == Normpath(FullPath(<<"lib">>, f))

\* A store holding the first n library records; a record's embedding is its
\* file number.
Library(n) ==
    [id \in {LibraryId(LibraryFiles[k]) : k \in 1..n} |->
        LET f == CHOOSE g \in {LibraryFiles[k] : k \in 1..n} : LibraryId(g) = id
        IN  [embedding |-> f, document |-> id,
             metadata |-> [filename |-> FileName(f), bpm |-> LibraryMeta(f).bpm,
                           key |-> LibraryMeta(f).key,
                           analysis_engine |-> LibraryMeta(f).analysis_engine]]]

\* The files of the library on disk: their durations; the sixth has been moved away.
LibraryFs ==
    [f \in 1..Len(FileNames) |->
        IF f = 6 \/ ~HasAudioExt(FileName(f)) THEN Absent
        ELSE [present |-> TRUE, durKnown |-> (f # 4), dur |-> IF f = 4 THEN 0 ELSE f % 4,
              vector |-> Some(f)]]

\* The texts typed into the search bar.
Queries == {"", " ", "kick"}

\* str.strip() on those texts
Strip(text) == IF text = " " THEN "" ELSE text

\* The store's distance between the query's embedding and a record's.
Distance(q, e) == (e * 47) % 130

\* collection.query: the ids by increasing distance.
RECURSIVE SortHits(_, _, _)
SortHits(q, coll, ids) ==
    IF ids = {} THEN <<>>
    ELSE LET near == CHOOSE a \in ids :
                        \A b \in ids : Distance(q, coll[a].embedding) <= Distance(q, coll[b].embedding)
         IN  <<near>> \o SortHits(q, coll, ids \ {near})

Min(a, b) == IF a <= b THEN a ELSE b
Max(a, b) == IF a >= b THEN a ELSE b

\* SampleSearcher.search: the n_results nearest records as dicts.
Search(q, coll, n_results) ==
    LET hits == SortHits(q, coll, DOMAIN coll)
        top == SubSeq(hits, 1, Min(n_results, Len(hits)))
    IN  [k \in 1..Len(top) |->
            [filename |-> coll[top[k]].metadata.filename,
             route |-> top[k],
             score |-> Distance(q, coll[top[k]].embedding),
             metadata |-> coll[top[k]].metadata]]

\* The include and exclude patterns typed; "[" is no regular expression.
Patterns == {"", "snare", "[", "a{4294967296}"}

\* The patterns typed into the exclude field.
ExcludePatterns == {"", "snare", "["}

\* re.search(pattern, filename, re.IGNORECASE) raises re.error
PatternInvalid(pattern) == pattern = "["

\* re.search(pattern, filename, re.IGNORECASE) raises OverflowError ("the
\* repetition number is too large"), which is no re.error
PatternOverflows(pattern) == pattern = "a{4294967296}"

\* re.search(pattern, filename, re.IGNORECASE) finds a match
PatternFound(pattern, filename) ==
    CASE pattern = "snare" -> filename = "Snare.WAV"
      [] pattern = "wav" -> filename \in {"kick.wav", "Snare.WAV"}
      [] OTHER -> FALSE

\* (mutant) the percentage left unclamped
SimilarityPercent_Unclamped(distance) == 100 - distance

\* max(0, min(100, (1 - distance / 2) * 100))
SimilarityPercent(distance) == Max(0, Min(100, 100 - distance))

\* (mutant) the BPM range applied to records without a bpm too
BpmExcluded_ZeroFiltered(b, min_bpm_val, max_bpm_val) ==
    (min_bpm_val > 0 \/ max_bpm_val < 3000) /\ (b < min_bpm_val \/ b > max_bpm_val)

\* "Filter by BPM": the record is dropped
BpmExcluded(b, min_bpm_val, max_bpm_val) ==
    /\ (min_bpm_val > 0 \/ max_bpm_val < 3000)
    /\ b > 0
    /\ (b < min_bpm_val \/ b > max_bpm_val)

\* "Filter by duration": the file is probed only when the filter is set; a
\* file that is gone or does not parse passes.
DurationExcluded(route, w, files) ==
    /\ (w.min_duration > 0 \/ w.max_duration < 999)
    /\ \E f \in DOMAIN files :
          /\ LibraryId(f) = route
          /\ files[f].present /\ files[f].durKnown
          /\ (files[f].dur < w.min_duration \/ files[f].dur > w.max_duration)

\* One pass of the loop of apply_filters: the item is kept.
Keeps(item, w, files) ==
    LET sim == SimilarityPercent(item.score) IN
    /\ ~(sim < w.min_similarity \/ sim > w.max_similarity)
    /\ (w.include_pattern # "" /\ ~PatternInvalid(w.include_pattern))
          => PatternFound(w.include_pattern, item.filename)
    /\ (w.exclude_pattern # "" /\ ~PatternInvalid(w.exclude_pattern))
          => ~PatternFound(w.exclude_pattern, item.filename)
    /\ (w.format_filter # "All") => Lower(ExtOf(item.filename)) = w.format_filter
    /\ ~BpmExcluded(item.metadata.bpm, w.min_bpm, w.max_bpm)
    /\ (w.key_filter # "All") => item.metadata.key = w.key_filter
    /\ ~DurationExcluded(item.route, w, files)

\* One pass of the loop of apply_filters lets an exception of re.search
\* escape: the item passed the similarity filter and reaches a pattern that
\* `except re.error` does not cover.
Raises(item, w) ==
    LET sim == SimilarityPercent(item.score) IN
    /\ ~(sim < w.min_similarity \/ sim > w.max_similarity)
    /\ \/ PatternOverflows(w.include_pattern)
       \/ /\ \/ w.include_pattern = ""
              \/ PatternInvalid(w.include_pattern)
              \/ PatternFound(w.include_pattern, item.filename)
          /\ PatternOverflows(w.exclude_pattern)

\* apply_filters ends in an exception instead of returning a list.
FiltersRaise(results, w) == \E k \in 1..Len(results) : Raises(results[k], w)

\* apply_filters: the kept items with their similarity, in the order given.
RECURSIVE apply_filters(_, _, _)
apply_filters(results, w, files) ==
    IF results = <<>> THEN <<>>
    ELSE (IF Keeps(Head(results), w, files)
          THEN <<[kind |-> "result", route |-> Head(results).route,
                  sim |-> SimilarityPercent(Head(results).score),
                  metadata |-> Head(results).metadata]>>
          ELSE <<>>)
         \o apply_filters(Tail(results), w, files)

\* (mutant) three times the requested count, uncapped
FetchK_Uncapped(top_k) == top_k * 3

\* fetch_k = min(100, top_k * 3)
FetchK(top_k) == Min(100, top_k * 3)

\* (mutant) the list not cut to the requested count
Truncate_Off(filtered, top_k) == filtered

\* filtered_results[:top_k]
Truncate(filtered, top_k) == SubSeq(filtered, 1, Min(top_k, Len(filtered)))

\* The item shown when nothing matches.
EmptyItem == [kind |-> "empty", route |-> <<>>, sim |-> 0,
              metadata |-> [filename |-> "", bpm |-> 0, key |-> "", analysis_engine |-> ""]]

\* do_search from the point where the query is known to be non-empty: what
\* result_list holds afterwards.
Listed(w, coll, files) ==
    LET filtered == Truncate(apply_filters(Search(Strip(w.query), coll, FetchK(w.top_k)),
                                           w, files),
                             w.top_k)
    IN  IF filtered = <<>> THEN <<EmptyItem>> ELSE filtered

\* The widgets as MainWindow.__init__ and create_filters_panel leave them.
DefaultWidgets ==
    [query |-> "", top_k |-> 15, include_pattern |-> "", exclude_pattern |-> "",
     min_similarity |-> 0, max_similarity |-> 100, format_filter |-> "All",
     min_bpm |-> 0, max_bpm |-> 3000, key_filter |-> "All",
     min_duration |-> 0, max_duration |-> 999]

\* The database folders the selector and the folder dialog offer.
Databases == {"sample_db", "drums_db"}

\* indexer.DB_PATH
DB_PATH == "sample_db"

UIIdle ==
    /\ current_db_path = DB_PATH
    /\ search_bar = (engine # None)
    /\ status_label = "ready"
    /\ db_state = [d \in Databases |-> "missing"]
    /\ btn_index = TRUE /\ btn_reanalyze = FALSE /\ btn_essentia_wsl = FALSE
    /\ workers = <<>>

SearchIdle ==
    /\ engine = None
    /\ widgets = DefaultWidgets
    /\ result_list = <<>>
    /\ searched = FALSE /\ raised = FALSE

\* do_search with the widgets at w.
do_search(w) ==
    IF engine = None \/ Strip(w.query) = ""
    THEN /\ UNCHANGED result_list
         /\ searched' = FALSE /\ raised' = FALSE
    ELSE IF FiltersRaise(Search(Strip(w.query), collection, FetchK(w.top_k)), w)
    THEN /\ UNCHANGED result_list
         /\ searched' = FALSE /\ raised' = TRUE
    ELSE /\ result_list' = Listed(w, collection, fs)
         /\ searched' = TRUE /\ raised' = FALSE

\* A line edit or spin box of the filters panel is edited: editingFinished.
Edit(field, value) ==
    /\ widgets' = [widgets EXCEPT ![field] = value]
    /\ do_search(widgets')
    /\ UNCHANGED <<engine, tempoVars, keyVars, progVars, raVars, indexVars, uiVars>>

\* A combo box of the filters panel gets another entry: currentIndexChanged.
Select(field, value) ==
    /\ value # widgets[field]
    /\ widgets' = [widgets EXCEPT ![field] = value]
    /\ do_search(widgets')
    /\ UNCHANGED <<engine, tempoVars, keyVars, progVars, raVars, indexVars, uiVars>>

\* search_bar: a query is typed and return is pressed.
EnterQuery(q) ==
    /\ search_bar
    /\ widgets' = [widgets EXCEPT !.query = q]
    /\ do_search(widgets')
    /\ UNCHANGED <<engine, tempoVars, keyVars, progVars, raVars, indexVars, uiVars>>

\* results_spinbox: its value changes; nothing is connected to it.
SetTopK(k) ==
    /\ k # widgets.top_k
    /\ widgets' = [widgets EXCEPT !.top_k = k]
    /\ searched' = FALSE
    /\ UNCHANGED <<engine, result_list, raised, tempoVars, keyVars, progVars, raVars, indexVars, uiVars>>

\* reset_filters: a combo box set back to its first entry signals do_search
\* before the closing refresh does.
reset_filters ==
    /\ widgets' = [DefaultWidgets EXCEPT !.query = widgets.query, !.top_k = widgets.top_k]
    /\ IF \/ Len(result_list) > 0
          \/ widgets.format_filter # "All"
          \/ widgets.key_filter # "All"
       THEN do_search(widgets')
       ELSE UNCHANGED <<result_list, raised>> /\ searched' = FALSE
    /\ UNCHANGED <<engine, tempoVars, keyVars, progVars, raVars, indexVars, uiVars>>

\* The values given to the widgets.
TopKs == {1, 2, 15}
FormatsTried == {"All", "wav"}
KeysTried == {"All", "C maj"}
MinSimilarities == {0, 50}
MinBpms == {0, 1200}
MaxBpms == {1300, 3000}
MinDurations == {0, 2}

SearchInit ==
    /\ engine = Some("sample_db")
    /\ widgets = DefaultWidgets
    /\ result_list = <<>>
    /\ searched = FALSE /\ raised = FALSE
    /\ \E n \in 0..NRecords : collection = Library(n)
    /\ fs = LibraryFs
    /\ pc = "idle" /\ folder_path = <<>> /\ existing_ids = {}
    /\ files_to_process = <<>> /\ i = 0 /\ count = 0 /\ percent = None
    /\ startStore = EmptyStore /\ flushes = <<>> /\ addLog = <<>>
    /\ fsClean = FALSE /\ rerun = FALSE /\ afterCrash = FALSE

InitSearch == TempoIdle /\ KeyIdle /\ ProgressIdle /\ ReanalysisIdle /\ SearchInit /\ UIIdle

SearchNext ==
    \/ \E q \in Queries : EnterQuery(q)
    \/ \E k \in TopKs : SetTopK(k)
    \/ \E p \in Patterns : Edit("include_pattern", p)
    \/ \E p \in ExcludePatterns : Edit("exclude_pattern", p)
    \/ \E v \in MinSimilarities : Edit("min_similarity", v)
    \/ \E v \in FormatsTried : Select("format_filter", v)
    \/ \E v \in MinBpms : Edit("min_bpm", v)
    \/ \E v \in MaxBpms : Edit("max_bpm", v)
    \/ \E v \in KeysTried : Select("key_filter", v)
    \/ \E v \in MinDurations : Edit("min_duration", v)
    \/ reset_filters

SpecSearch == InitSearch /\ [][SearchNext]_vars

(***************************************************************************)
(* Claims about searching.                                                 *)
(***************************************************************************)

\* The result items listed, the "no results" line left out.
Results == SelectSeq(result_list, LAMBDA it : it.kind = "result")

\* What the searcher handed to apply_filters in the last search.
Fetched == Search(Strip(widgets.query), collection, FetchK(widgets.top_k))

\* C7: a search with result count top_k lists at most top_k results, and
\* the results listed are in order of non-increasing similarity percentage.
C7_AtMostTopKSorted ==
    /\ searched => Len(Results) <= widgets.top_k
    /\ \A a, b \in 1..Len(Results) :
          (a < b) => (Results[a].sim >= Results[b].sim)

\* A search for 2 results over a store of more than 2 matching records, with a
\* filter set, listed 2 results of different similarity.
C7_Witness ==
    /\ searched
    /\ widgets.top_k = 2
    /\ widgets.min_bpm > 0
    /\ Len(apply_filters(Fetched, widgets, fs)) > 2
    /\ Len(Results) = 2
    /\ Results[1].sim > Results[2].sim

\* The BPM range of w is set: not the whole range of the spin boxes.
BpmRangeActive(w) == w.min_bpm > 0 \/ w.max_bpm < 3000

\* w with the BPM range left at its defaults.
WithoutBpmRange(w) == [w EXCEPT !.min_bpm = 0, !.max_bpm = 3000]

Routes(items) == {items[k].route : k \in 1..Len(items)}

\* C8: with a BPM range set, apply_filters passes a record whose bpm is 0
\* exactly as it would without the range, and drops every record whose bpm is
\* above 0 and outside the range; with the range [120, 130] alone a record of
\* bpm 0 passes and one of bpm 90 is dropped.
C8_BpmRange ==
    (searched /\ BpmRangeActive(widgets)) =>
        LET w == widgets
            passed == Routes(apply_filters(Fetched, w, fs))
            unranged == Routes(apply_filters(Fetched, WithoutBpmRange(w), fs))
        IN  \A k \in 1..Len(Fetched) :
              LET item == Fetched[k] IN
              /\ (item.metadata.bpm = 0) =>
                    ((item.route \in passed) <=> (item.route \in unranged))
              /\ (item.metadata.bpm > 0 /\
                    (item.metadata.bpm < w.min_bpm \/ item.metadata.bpm > w.max_bpm)) =>
                    /\ item.route \notin passed
                    /\ item.route \notin Routes(Results)
              /\ (w = [WithoutBpmRange(w) EXCEPT !.min_bpm = 1200, !.max_bpm = 1300]
                    /\ WithoutBpmRange(w) = [DefaultWidgets EXCEPT !.query = w.query,
                                                                    !.top_k = w.top_k]) =>
                    /\ (item.metadata.bpm = 0) =>
                          (item.route \in passed /\ (Cardinality(passed) <= w.top_k =>
                                                        item.route \in Routes(Results)))
                    /\ (item.metadata.bpm = 900) => item.route \notin Routes(Results)

\* A search under the range [120, 130] alone fetched a record of bpm 0 and one
\* of bpm 90; the first is listed, the second is not.
C8_Witness ==
    /\ searched
    /\ widgets.min_bpm = 1200 /\ widgets.max_bpm = 1300
    /\ WithoutBpmRange(widgets) = [DefaultWidgets EXCEPT !.query = widgets.query,
                                                          !.top_k = widgets.top_k]
    /\ \E a, b \in 1..Len(Fetched) :
          /\ Fetched[a].metadata.bpm = 0 /\ Fetched[a].route \in Routes(Results)
          /\ Fetched[b].metadata.bpm = 900 /\ Fetched[b].route \notin Routes(Results)


(***************************************************************************)
(* MainWindow: the operation buttons, the database selector and the worker *)
(* threads.  A database folder is "missing", "foreign" (a folder without   *)
(* the samples_library collection) or "ready".                             *)
(***************************************************************************)

\* Bound: worker threads alive at once.
MaxWorkers == 2

\* SampleSearcher(db_path=d): "ok", FileNotFoundError or another exception.
SampleSearcher(d) ==
    CASE db_state[d] = "ready" -> "ok"
      [] db_state[d] = "missing" -> "FileNotFoundError"
      [] OTHER -> "Exception"

\* MainWindow.__init__: the searcher is opened on the database last used; an
\* exception other than FileNotFoundError ends the program.
UIInit ==
    /\ current_db_path = DB_PATH
    /\ db_state \in [Databases -> {"missing", "foreign", "ready"}]
    /\ db_state[DB_PATH] # "foreign"
    /\ engine = IF db_state[DB_PATH] = "ready" THEN Some(DB_PATH) ELSE None
    /\ search_bar = (db_state[DB_PATH] = "ready")
    /\ status_label = "ready"
    /\ btn_index = TRUE
    /\ btn_reanalyze = (db_state[DB_PATH] = "ready")
    /\ btn_essentia_wsl = (db_state[DB_PATH] = "ready")
    /\ workers = <<>>
    /\ widgets = DefaultWidgets
    /\ result_list = <<>>
    /\ searched = FALSE /\ raised = FALSE

\* (mutant) the search bar disabled with the buttons, as the lines the
\* handlers keep commented out would do
StartWorker_LocksSearch(kind) ==
    /\ Len(workers) < MaxWorkers
    /\ btn_index' = FALSE /\ btn_reanalyze' = FALSE /\ btn_essentia_wsl' = FALSE
    /\ search_bar' = FALSE
    /\ status_label' = "running"
    /\ workers' = Append(workers, [kind |-> kind, db_path |-> current_db_path,
                                   opened |-> FALSE, failed |-> FALSE])
    /\ UNCHANGED <<current_db_path, db_state, searchVars, tempoVars, keyVars, progVars, raVars, indexVars>>

\* The three operation buttons disabled, a worker thread started on the
\* current database: the common part of the start_ handlers.  The search bar
\* and the database selector are left as they are.
StartWorker(kind) ==
    /\ Len(workers) < MaxWorkers
    /\ btn_index' = FALSE /\ btn_reanalyze' = FALSE /\ btn_essentia_wsl' = FALSE
    /\ status_label' = "running"
    /\ workers' = Append(workers, [kind |-> kind, db_path |-> current_db_path,
                                   opened |-> FALSE, failed |-> FALSE])
    /\ UNCHANGED <<current_db_path, db_state, search_bar, searchVars, tempoVars, keyVars, progVars, raVars, indexVars>>

\* open_folder_dialog with a folder chosen and confirmed: start_indexing
start_indexing == btn_index /\ StartWorker("indexing")

\* start_bpm_reanalysis, the question answered Yes
start_bpm_reanalysis == btn_reanalyze /\ StartWorker("bpm")

\* start_essentia_wsl_analysis, the question answered Yes
start_essentia_wsl_analysis == btn_essentia_wsl /\ StartWorker("essentia")

\* IndexingWorker.run / BPMReanalysisWorker.run up to IndexerBackend(db_path):
\* the folder and its collection are created where missing.
WorkerOpens(k) ==
    /\ workers[k].kind \in {"indexing", "bpm"}
    /\ ~workers[k].opened
    /\ workers' = [workers EXCEPT ![k].opened = TRUE]
    /\ db_state' = [db_state EXCEPT ![workers[k].db_path] = "ready"]
    /\ status_label' = "running"
    /\ UNCHANGED <<current_db_path, search_bar, btn_index, btn_reanalyze, btn_essentia_wsl,
                   searchVars, tempoVars, keyVars, progVars, raVars, indexVars>>

\* IndexerBackend(db_path) raises (the CLAP model cannot be loaded, the
\* store cannot be opened): the call stands before the try of run, so the
\* thread ends there and emits neither finished nor any other signal a
\* handler of the window is connected to.
WorkerOpenFails(k) ==
    /\ workers[k].kind \in {"indexing", "bpm"}
    /\ ~workers[k].opened
    /\ workers' = SubSeq(workers, 1, k - 1) \o SubSeq(workers, k + 1, Len(workers))
    /\ UNCHANGED <<current_db_path, db_state, search_bar, status_label, btn_index,
                   btn_reanalyze, btn_essentia_wsl, searchVars, tempoVars, keyVars,
                   progVars, raVars, indexVars>>

\* A call on the store inside the try of run raises (collection.get(), add
\* or update: the store unreadable, locked or gone): the FATAL status is
\* emitted, which update_status_label shows unless progress is being shown,
\* and the worker goes on to emit finished(0).
RunFails(k) ==
    /\ workers[k].kind \in {"indexing", "bpm"}
    /\ workers[k].opened /\ ~workers[k].failed
    /\ workers' = [workers EXCEPT ![k].failed = TRUE]
    /\ status_label' \in {status_label, "error"}
    /\ UNCHANGED <<current_db_path, db_state, search_bar, btn_index, btn_reanalyze,
                   btn_essentia_wsl, searchVars, tempoVars, keyVars, progVars, raVars,
                   indexVars>>

Remove(seq, k) == SubSeq(seq, 1, k - 1) \o SubSeq(seq, k + 1, Len(seq))

\* The part the finished and error handlers share: the buttons enabled again.
EnableButtons ==
    /\ btn_index' = TRUE /\ btn_reanalyze' = TRUE /\ btn_essentia_wsl' = TRUE

\* indexing_finished, on the finished signal of worker k
indexing_finished(k) ==
    /\ workers[k].kind = "indexing" /\ workers[k].opened
    /\ workers' = Remove(workers, k)
    /\ EnableButtons
    /\ engine' = IF SampleSearcher(current_db_path) = "ok"
                 THEN Some(current_db_path) ELSE engine
    /\ search_bar' = IF SampleSearcher(current_db_path) = "ok" THEN TRUE ELSE search_bar
    /\ status_label' = IF SampleSearcher(current_db_path) = "ok" THEN "success" ELSE "error"
    /\ UNCHANGED <<widgets, result_list, searched, raised, current_db_path, db_state,
                   tempoVars, keyVars, progVars, raVars, indexVars>>

\* bpm_reanalysis_finished(count), on the finished signal of worker k
bpm_reanalysis_finished(k, n_updated) ==
    /\ workers[k].kind = "bpm" /\ workers[k].opened
    /\ workers[k].failed => n_updated = 0
    /\ status_label' = "success"
    /\ workers' = Remove(workers, k)
    /\ EnableButtons
    /\ IF n_updated > 0 /\ Len(result_list) > 0 THEN do_search(widgets)
       ELSE UNCHANGED <<result_list, searched, raised>>
    /\ UNCHANGED <<engine, widgets, current_db_path, db_state, search_bar, tempoVars, keyVars, progVars, raVars, indexVars>>

\* essentia_wsl_finished, on the finished signal of worker k
essentia_wsl_finished(k) ==
    /\ workers[k].kind = "essentia"
    /\ status_label' = "success"
    /\ workers' = Remove(workers, k)
    /\ EnableButtons
    /\ IF Len(result_list) > 0 THEN do_search(widgets)
       ELSE UNCHANGED <<result_list, searched, raised>>
    /\ UNCHANGED <<engine, widgets, current_db_path, db_state, search_bar, tempoVars, keyVars, progVars, raVars, indexVars>>

\* essentia_wsl_error, on the error signal of worker k
essentia_wsl_error(k) ==
    /\ workers[k].kind = "essentia"
    /\ status_label' = "error"
    /\ workers' = Remove(workers, k)
    /\ EnableButtons
    /\ UNCHANGED <<searchVars, current_db_path, db_state, search_bar, tempoVars, keyVars, progVars, raVars, indexVars>>

\* reload_search_engine with self.current_db_path already set to d
reload_search_engine(d) ==
    CASE SampleSearcher(d) = "ok" ->
            /\ engine' = Some(d)
            /\ search_bar' = TRUE
            /\ status_label' = "success"
            /\ btn_reanalyze' = TRUE /\ btn_essentia_wsl' = TRUE
            /\ result_list' = <<>> /\ searched' = FALSE /\ UNCHANGED raised
      [] SampleSearcher(d) = "FileNotFoundError" ->
            /\ engine' = None
            /\ search_bar' = FALSE
            /\ status_label' = "not_found"
            /\ btn_reanalyze' = FALSE /\ btn_essentia_wsl' = FALSE
            /\ UNCHANGED <<result_list, searched, raised>>
      [] OTHER ->
            /\ status_label' = "error"
            /\ UNCHANGED <<engine, search_bar, btn_reanalyze, btn_essentia_wsl, result_list,
                           searched, raised>>

\* on_database_changed: an entry of the selector other than "Browse..." chosen
SelectDatabase(d) ==
    /\ d # current_db_path
    /\ current_db_path' = d
    /\ reload_search_engine(d)
    /\ UNCHANGED <<btn_index, widgets, db_state, workers, tempoVars, keyVars, progVars, raVars, indexVars>>

\* on_database_changed: "Browse..." chosen and the folder d picked; a folder
\* the searcher cannot open leaves everything as it was.
BrowseDatabase(d) ==
    /\ IF SampleSearcher(d) = "ok"
       THEN /\ current_db_path' = d
            /\ reload_search_engine(d)
       ELSE UNCHANGED <<current_db_path, engine, search_bar, status_label, btn_reanalyze, btn_essentia_wsl,
                        result_list, searched, raised>>
    /\ UNCHANGED <<btn_index, widgets, db_state, workers, tempoVars, keyVars, progVars, raVars, indexVars>>

InitUI == TempoIdle /\ KeyIdle /\ ProgressIdle /\ ReanalysisIdle /\ IndexIdle /\ UIInit

UINext ==
    \/ start_indexing
    \/ start_bpm_reanalysis
    \/ start_essentia_wsl_analysis
    \/ \E k \in 1..Len(workers) : WorkerOpens(k)
    \/ \E k \in 1..Len(workers) : WorkerOpenFails(k)
    \/ \E k \in 1..Len(workers) : RunFails(k)
    \/ \E k \in 1..Len(workers) : indexing_finished(k)
    \/ \E k \in 1..Len(workers) : \E n_updated \in {0, 1} : bpm_reanalysis_finished(k, n_updated)
    \/ \E k \in 1..Len(workers) : essentia_wsl_finished(k)
    \/ \E k \in 1..Len(workers) : essentia_wsl_error(k)
    \/ \E d \in Databases : SelectDatabase(d)
    \/ \E d \in Databases : BrowseDatabase(d)
    \/ \E q \in Queries : EnterQuery(q)

SpecUI == InitUI /\ [][UINext]_vars

\* C1: at most one indexing or analysis worker is running at any time.
C1_AtMostOneWorker == Len(workers) <= 1

Init == TempoIdle /\ KeyIdle /\ ProgressIdle /\ ReanalysisIdle /\ IndexInit /\ SearchIdle /\ UIIdle

Next ==
    \/ (\E folder \in FolderSpellings : Scan(folder)) /\ UNCHANGED <<tempoVars, keyVars, progVars, raVars, searchVars, uiVars>>
    \/ IndexFile /\ UNCHANGED <<tempoVars, keyVars, progVars, raVars, searchVars, uiVars>>
    \/ Crash /\ UNCHANGED <<tempoVars, keyVars, progVars, raVars, searchVars, uiVars>>
    \/ (\E f \in Files : \E c \in FileStates(f) : ChangeFile(f, c)) /\ UNCHANGED <<tempoVars, keyVars, progVars, raVars, searchVars, uiVars>>

Spec == Init /\ [][Next]_vars

(***************************************************************************)
(* Properties of the incremental indexer.                                  *)
(***************************************************************************)

IdOf(folder, f) == Normpath(FullPath(folder, f))

\* The audio files of the folder, by what the file system holds.
IsAudioFile(f) == fs[f].present /\ Lower(ExtOf(FileName(f))) \in SupportedExts

\* f is eligible: an audio file, probed no longer than the ceiling, embeddable.
Eligible(f) ==
    /\ IsAudioFile(f)
    /\ fs[f].durKnown /\ fs[f].dur <= MAX_DURATION
    /\ fs[f].vector # None

NoDup(s) == \A a, b \in 1..Len(s) : a # b => s[a] # s[b]

\* The ids handed to collection.add by the current run.
AddedThisRun == {addLog[n] : n \in (Len(addLog) - Len(flushes) + 1)..Len(addLog)}

\* The file system is the one the current run scanned.
ScanFresh == pc = "loop" \/ (pc = "done" /\ fsClean)

\* C2: a run over a folder in which nothing is new or changed since the
\* previous completed run counts 0 and leaves every record as it was.
C2_RerunIdempotent ==
    (rerun /\ pc \in {"loop", "done"}) => (count = 0 /\ collection = startStore)

\* C2 witness: a second run, the folder spelled unnormalised, ended over a
\* store the first run had filled.
C2_Witness ==
    /\ pc = "done" /\ rerun
    /\ Ids(collection) # {}
    /\ folder_path # Normpath(folder_path)

\* C3: the records a crashed job wrote remain; the next run on the same
\* folder writes exactly the eligible files not yet written, so that every
\* eligible file has its record, and no id is ever added twice.
C3_CrashRecovery ==
    /\ NoDup(addLog)
    /\ (pc = "done" /\ afterCrash /\ ScanFresh) =>
          /\ \A id \in Ids(startStore) :
                id \in Ids(collection) /\ collection[id] = startStore[id]
          /\ AddedThisRun = {IdOf(folder_path, f) : f \in {g \in Files : Eligible(g)}}
                                \ Ids(startStore)
          /\ \A f \in Files : Eligible(f) => IdOf(folder_path, f) \in Ids(collection)

\* C3 witness: the job crashed after writing a record and the next run wrote more.
C3_Witness ==
    /\ pc = "done" /\ afterCrash /\ ScanFresh
    /\ Ids(startStore) # {}
    /\ count > 0

\* C4: run_indexing never writes a record for a file whose probed duration
\* exceeds the 10 second ceiling, whether or not the file embeds.
C4_NeverWritesLong ==
    ScanFresh =>
        \A id \in AddedThisRun :
            LET c == fs[FileAt(folder_path, id)]
            IN  ~(c.durKnown /\ c.dur > MAX_DURATION)

\* C4 witness: a run ended having written records and left out an embeddable
\* audio file longer than the ceiling.
C4_Witness ==
    /\ pc = "done" /\ count > 0 /\ ScanFresh
    /\ \E f \in Files :
          /\ IsAudioFile(f) /\ fs[f].durKnown /\ fs[f].dur > MAX_DURATION
          /\ fs[f].vector # None
          /\ IdOf(folder_path, f) \notin Ids(collection)

\* The not-yet-indexed audio files the current scan met.
Met(f) == IsAudioFile(f) /\ IdOf(folder_path, f) \notin existing_ids

Queued(f) == \E n \in 1..Len(files_to_process) : files_to_process[n] = IdOf(folder_path, f)

ExpectedFlushes(n) ==
    [k \in 1..(n \div BATCH_SIZE) |-> BATCH_SIZE]
        \o (IF n % BATCH_SIZE # 0 THEN <<n % BATCH_SIZE>> ELSE <<>>)

InitTempo == TempoInit /\ KeyIdle /\ ProgressIdle /\ ReanalysisIdle /\ IndexIdle /\ SearchIdle /\ UIIdle

SpecTempo == InitTempo /\ [][TempoNext]_vars

SeqSet(s) == {s[k] : k \in 1..Len(s)}

\* C9: whatever the base tempo (zero, negative, below 40, above 200), the
\* estimate of either audio_engine is none or a value in [40,200] BPM, never zero
\* or negative.
C9_TempoInBand ==
    tpc = "done" => (bpm = None \/ (Len(bpm) = 1 /\ 400 <= Val(bpm) /\ Val(bpm) <= 2000))

\* C9 witness: a base below 40 BPM that the librosa estimator doubled into the band.
C9_Witness ==
    tpc = "done" /\ audio_engine = "librosa" /\ base_bpm < 400 /\ base_bpm > 0 /\ bpm # None

\* C9 witness of the none result: a non-positive base.
C9_WitnessNone ==
    tpc = "done" /\ base_bpm <= 0 /\ bpm = None

\* The candidate set the octave correction is specified to build.
OctaveSet(t) ==
    {t} \cup (IF t < BpmTicks(80) THEN {2 * t} ELSE {})
        \cup (IF t > BpmTicks(160) THEN {t \div 2} ELSE {})

Survivors(t) == {c \in OctaveSet(t) : BpmTicks(40) <= c /\ c <= BpmTicks(200)}

\* C10: the candidates are {base}, base*2 when base < 80 and base/2 when
\* base > 160; those outside [40,200] are dropped and the survivor closest to
\* 120 is returned (to one decimal); base 70 gives {70,140} and 140, base 170
\* gives {170,85} and 85.
C10_OctaveCorrection ==
    (tpc = "done" /\ (audio_engine = "librosa" \/ base_bpm > 0)) =>
        LET t == Ticks(base_bpm) IN
        /\ SeqSet(candidates) = OctaveSet(t)
        /\ ((bpm = None) <=> (Survivors(t) = {}))
        /\ (bpm # None) =>
              \E c \in Survivors(t) :
                  /\ \A d \in Survivors(t) : Abs(c - BpmTicks(120)) <= Abs(d - BpmTicks(120))
                  /\ Abs(2 * Val(bpm) - c) <= 1
        /\ base_bpm = 700 => (SeqSet(candidates) = {1400, 2800} /\ bpm = Some(1400))
        /\ base_bpm = 1700 => (SeqSet(candidates) = {3400, 1700} /\ bpm = Some(850))

\* C10 witness: the estimator ran on base 170 and returned 85.
C10_Witness ==
    tpc = "done" /\ audio_engine = "librosa" /\ base_bpm = 1700 /\ bpm = Some(850)

InitKey == KeyInit /\ TempoIdle /\ ProgressIdle /\ ReanalysisIdle /\ IndexIdle /\ SearchIdle /\ UIIdle

SpecKey == InitKey /\ [][KeyNext]_vars

\* The best score among the 24 correlations.
BestScore(corr) == CHOOSE v \in {corr[n] : n \in Candidates} :
                       \A n \in Candidates : corr[n] <= v

\* C11: the key the profile correlation selects is the same whichever of the
\* 12 rotations is evaluated first.
C11_OrderIndependent ==
    (kpc = "done" /\ key_input.engine = "librosa") =>
        \A first \in 0..(Len(pitch_classes) - 1) :
            LibrosaKeyIn(key_input, RotatedOrder(first)) = key

\* The estimator had nothing to judge: a near-constant chroma (librosa) or no
\* frame with spectral peaks (essentia).
Degenerate(input) ==
    IF input.engine = "librosa" THEN input.flat ELSE ~input.peaks

\* The best match's correlation (librosa) or the strength (essentia).
BestOf(input) ==
    IF input.engine = "librosa" THEN BestScore(input.corr) ELSE input.strength

\* C12: either key estimator returns a key if and only if there was something
\* to judge and the best correlation or strength is strictly above 0.5; a
\* best score of 0.5 or less gives none.
C12_KeyThreshold ==
    (kpc = "done") =>
        /\ (key # None) <=> (~Degenerate(key_input) /\ BestOf(key_input) > 50)
        /\ (key # None /\ key_input.engine = "librosa") =>
              \E n \in Candidates :
                  /\ key_input.corr[n] = BestOf(key_input)
                  /\ Val(key) = KeyName(n)
        /\ (key # None /\ key_input.engine = "essentia") =>
              Val(key) = key_input.key \o (IF key_input.scale = "major"
                                           THEN " maj" ELSE " min")

\* C12 witness: the librosa estimator met a best correlation of exactly 0.5
\* and returned none.
C12_Witness ==
    /\ kpc = "done" /\ key_input.engine = "librosa" /\ ~key_input.flat
    /\ BestOf(key_input) = 50 /\ key = None

\* C12 witness for essentia: a strength above 0.5 gave a key.
C12_WitnessEssentia ==
    /\ kpc = "done" /\ key_input.engine = "essentia"
    /\ key_input.strength = 51 /\ key = Some("F# min")

InitProgress == ProgressInit /\ TempoIdle /\ KeyIdle /\ ReanalysisIdle /\ IndexIdle /\ SearchIdle /\ UIIdle

SpecProgress == InitProgress /\ [][ProgressNext]_vars

\* C13: within one job the percentages handed to the observer never
\* decrease, each lies in 0..100, and the one after the last candidate is 100.
C13_ProgressMonotone ==
    (emitted # None) =>
        /\ 0 <= Val(emitted) /\ Val(emitted) <= 100
        /\ (emitted_before # None) => Val(emitted_before) <= Val(emitted)
        /\ (prog_done = prog_total) => Val(emitted) = 100

\* C13 witness: a re-analysis job of three candidates reported 66 and then 100.
C13_Witness ==
    /\ prog_job = "bpm" /\ prog_total = 3 /\ prog_done = 3
    /\ emitted_before = Some(66) /\ emitted = Some(100)

\* 100 * done / total rounded to the nearest integer
Rounded(done, total) == (200 * done + total) \div (2 * total)

\* C14 as stated: after each processed candidate the progress reported is
\* round(100 * processed / total).
C14_Original ==
    (emitted # None) => Val(emitted) = Rounded(prog_done, prog_total)

\* C14: after each processed candidate, whatever became of it, the progress
\* reported is 100 * processed / total with the fraction cut off (one less
\* where the floating-point product falls short of the integer), so it is
\* never above the exact ratio and less than 2 below it.
C14_ProgressTruncated ==
    (emitted # None) =>
        /\ Val(emitted) = ((100 * prog_done) \div prog_total)
                            - FloatShortfall(prog_done, prog_total)
        /\ Val(emitted) * prog_total <= 100 * prog_done
        /\ 100 * prog_done < (Val(emitted) + 2) * prog_total
        /\ (prog_total < 50) => Val(emitted) = (100 * prog_done) \div prog_total

\* C14 witness: the second of three candidates reported 66, not 67.
C14_Witness ==
    prog_job = "indexing" /\ prog_total = 3 /\ prog_done = 2 /\ emitted = Some(66)

(***************************************************************************)
(* Further claims about indexing (specification Spec).                     *)
(***************************************************************************)

\* The candidates the loop has passed whose embedding fails / succeeds.
PassedFailing ==
    {k \in 1..i : fs[FileAt(folder_path, files_to_process[k])].vector = None}
PassedEmbedded == (1..i) \ PassedFailing

\* C15: a candidate whose embedding fails gets no record and is not counted,
\* and the loop goes on to the remaining candidates: the store holds what it
\* held plus the candidates embedded, and progress is reported for each pass.
C15_EmbeddingFailureSkipped ==
    ScanFresh =>
        /\ \A k \in PassedFailing : files_to_process[k] \notin Ids(collection)
        /\ count = Cardinality(PassedEmbedded)
        /\ Ids(collection) = Ids(startStore) \cup {files_to_process[k] : k \in PassedEmbedded}
        /\ \A id \in Ids(startStore) : collection[id] = startStore[id]
        /\ (pc = "done") <=> (i = Len(files_to_process))
        /\ (i > 0) => percent = Some(Percent(i, Len(files_to_process)))

\* C15 witness: the first candidate failed to embed, the second was indexed.
C15_Witness ==
    /\ pc = "done" /\ fsClean /\ i = 2 /\ count = 1
    /\ PassedFailing = {1}
    /\ files_to_process[2] \in Ids(collection)

\* The pattern is no regular expression re can compile.
NotARegex(pattern) == PatternInvalid(pattern) \/ PatternOverflows(pattern)

\* C18: with an include or exclude pattern that is no valid regular
\* expression, do_search's call of apply_filters raises nothing and lists
\* what it would list with that pattern empty.
C18_InvalidPatternIgnored ==
    /\ (NotARegex(widgets.include_pattern) \/ NotARegex(widgets.exclude_pattern))
          => ~raised
    /\ (searched /\ NotARegex(widgets.include_pattern))
          => result_list = Listed([widgets EXCEPT !.include_pattern = ""], collection, fs)
    /\ (searched /\ NotARegex(widgets.exclude_pattern))
          => result_list = Listed([widgets EXCEPT !.exclude_pattern = ""], collection, fs)

(***************************************************************************)
(* Re-analysis passes over a store filled by both indexers.                *)
(***************************************************************************)

InitReanalysis == ReanalysisInit /\ TempoIdle /\ KeyIdle /\ ProgressIdle /\ SearchIdle /\ UIIdle

SpecReanalysis == InitReanalysis /\ [][ReanalysisNext]_vars

\* The stored metadata of the k-th sample the pass selected.
StoredMeta(k) == collection[samples_to_analyze[k].id].metadata

\* The metadata the k-th sample had in the store when the pass started.
PriorMeta(k) == ra_start[samples_to_analyze[k].id].metadata

\* C16: once a re-analysis pass is complete, every record it selected has its
\* stored bpm replaced by a non-none bpm result and its stored key by a
\* non-none key result, keeps the prior stored value where the result was
\* none, and has its stored analysis_engine tag set to the engine of the pass.
C16_MergedAndStamped ==
    ra_pc = "done" =>
        \A k \in 1..Len(samples_to_analyze) :
            LET r == ra_results[k] IN
            /\ r.bpm # None => MetaGet(StoredMeta(k), "bpm", None) = Val(r.bpm)
            /\ r.key # None => MetaGet(StoredMeta(k), "key", None) = Val(r.key)
            /\ r.bpm = None =>
                  MetaGet(StoredMeta(k), "bpm", None) = MetaGet(PriorMeta(k), "bpm", None)
            /\ r.key = None =>
                  MetaGet(StoredMeta(k), "key", None) = MetaGet(PriorMeta(k), "key", None)
            /\ MetaGet(StoredMeta(k), "analysis_engine", None) = ra_engine

\* The fields of a complete record's metadata.
CompleteFields == {"filename", "bpm", "key", "analysis_engine"}

\* C17: whatever indexing runs and re-analysis passes have happened, every
\* record of the store has an id that is its stored document and a
\* normalized path, and carries an embedding, filename, bpm, key and
\* analysis_engine.
C17_RecordsComplete ==
    \A id \in DOMAIN collection :
        /\ collection[id].document = id
        /\ Normpath(id) = id
        /\ collection[id].embedding \in Samples
        /\ CompleteFields \subseteq DOMAIN collection[id].metadata

(***************************************************************************)
(* Searching while a job runs.                                             *)
(***************************************************************************)

\* One of the three launch handlers acts.
Launch == start_indexing \/ start_bpm_reanalysis \/ start_essentia_wsl_analysis

\* A launch leaves the search bar's enabled state and the engine as they are.
LaunchKeepsSearch == Launch => (search_bar' = search_bar /\ engine' = engine)

\* A query typed now is searched: do_search gets to the listing.
CanSearch == ENABLED (EnterQuery("kick") /\ searched')

\* C19 as stated: a launch changes neither the search bar's enabled state nor
\* the engine, and in every state where a job is running a search can be
\* executed.
C19_Original ==
    /\ [][LaunchKeepsSearch]_vars
    /\ [](Len(workers) > 0 => CanSearch)

\* C19, corrected: a launch changes neither the search bar's enabled state
\* nor the engine, and while a job is running a search can be executed
\* exactly when the search bar is enabled, which is exactly when an engine is
\* loaded (a job started with no store at the current path runs with the
\* search bar disabled).
C19_LaunchKeepsSearch ==
    /\ [][LaunchKeepsSearch]_vars
    /\ [](Len(workers) > 0 =>
            /\ search_bar <=> (engine # None)
            /\ CanSearch <=> search_bar)

\* C19 witness: a job is running, the engine is loaded and a search made
\* with the operation buttons disabled has listed its result.
C19_Witness ==
    /\ Len(workers) > 0 /\ ~btn_index
    /\ search_bar /\ engine # None
    /\ searched /\ Len(result_list) > 0

\* C19 witness: a job runs while no engine is loaded; nothing can be searched.
C19_WitnessNoEngine == Len(workers) > 0 /\ engine = None /\ ~search_bar

(***************************************************************************)
(* Failures of the store.                                                  *)
(***************************************************************************)

\* The searcher's two failures are told apart when a database is selected:
\* FileNotFoundError is reported as "not found" and unloads the engine, any
\* other exception as an error, and neither as a success.
SearcherFailureSurfaced ==
    \A d \in Databases :
        SelectDatabase(d) =>
            /\ SampleSearcher(d) = "FileNotFoundError"
                  <=> (status_label' = "not_found" /\ engine' = None)
            /\ SampleSearcher(d) = "Exception" <=> status_label' = "error"
            /\ SampleSearcher(d) = "ok" <=> status_label' = "success"

\* The finished handler of a worker whose run met a failure of the store
\* does not report a success.
WorkerFailureSurfaced ==
    \A k \in 1..Len(workers) :
        (/\ workers[k].failed
         /\ indexing_finished(k) \/ bpm_reanalysis_finished(k, 0))
            => status_label' # "success"

\* C20: a failure of the store ends the operation that needs it and reaches
\* the caller as a failure of its own kind: "store not found" is told apart
\* from every other failure, and no failure of the store is reported as a
\* success.
C20_StoreFailureSurfaced == [][SearcherFailureSurfaced /\ WorkerFailureSurfaced]_vars

(***************************************************************************)
(* One analysis of a file: the two blocks fail apart.                      *)
(***************************************************************************)

InitAnalysis == AnalysisInit /\ ProgressIdle /\ ReanalysisIdle /\ IndexIdle /\ SearchIdle /\ UIIdle

SpecAnalysis == InitAnalysis /\ [][AnalysisNext]_vars

\* The bpm the BPM block gives when it does not raise.
BpmAlone ==
    IF audio_engine = "librosa" THEN LibrosaTempo(base_bpm, tieUp)
    ELSE EssentiaTempo(base_bpm, tieUp)

\* The key the key block gives when it does not raise.
KeyAlone == IF audio_engine = "librosa" THEN LibrosaKey(key_input) ELSE EssentiaKey(key_input)

\* C21: in the analysis of a file that loaded, a BPM block that raises gives
\* bpm none and a key block that raises gives key none, and each result is
\* what its block gives alone whether or not the other block raised; the
\* analysis returns in every case.
C21_FailuresIndependent ==
    (tpc = "done" /\ kpc = "done" /\ audio_ok) =>
        /\ bpm = IF tempo_raises THEN None ELSE BpmAlone
        /\ key = IF key_raises THEN None ELSE KeyAlone

\* C21 witness: the BPM block raised and the analysis still returned a key.
C21_Witness ==
    /\ tpc = "done" /\ kpc = "done" /\ audio_ok
    /\ tempo_raises /\ ~key_raises /\ bpm = None /\ key # None

\* C21 witness: the key block raised and the analysis still returned a bpm.
C21_WitnessKey ==
    /\ tpc = "done" /\ kpc = "done" /\ audio_ok
    /\ key_raises /\ ~tempo_raises /\ key = None /\ bpm # None

(***************************************************************************)
(* The update batches of a re-analysis pass.                               *)
(***************************************************************************)

InitPass == PassInit /\ TempoIdle /\ KeyIdle /\ ProgressIdle /\ SearchIdle /\ UIIdle

SpecPass == InitPass /\ [][PassNext]_vars

\* How many times id was given to collection.update in the pass.
RECURSIVE TimesWritten(_, _)
TimesWritten(id, fl) ==
    IF fl = <<>> THEN 0
    ELSE Cardinality({n \in 1..Len(Head(fl)) : Head(fl)[n] = id}) + TimesWritten(id, Tail(fl))

\* The samples of the pass counted as updated so far.
CountedUpdated ==
    {k \in 1..ra_i : QueuedForUpdate(ra_engine, force_reanalysis, ra_results[k])}

JobEnds == Len(workers') < Len(workers)

\* The thread that ended had constructed its indexer backend (the Essentia
\* worker constructs none).
BackendConstructed ==
    \E k \in 1..Len(workers) :
        /\ workers' = Remove(workers, k)
        /\ workers[k].kind = "essentia" \/ workers[k].opened

\* C23: every job that ends does so with a completion or failure
\* notification to the window, whose handler enables the indexing and
\* analysis buttons again, also when constructing the indexer backend failed.
C23_JobEndNotified == [][JobEnds => EnableButtons]_vars

\* The same for the jobs whose backend was constructed.
C23_ConstructedJobNotified == [][JobEnds /\ BackendConstructed => EnableButtons]_vars

(***************************************************************************)
(* The engine tag and the values stored with it.                           *)
(***************************************************************************)

\* The engine whose key block writes the key string k: "Maj"/"Min" are
\* librosa's spellings, "maj"/"min" essentia's.
KeyProducer(k) ==
    IF k \in {KeyName(n) : n \in Candidates} THEN "librosa" ELSE "essentia"

\* The engine that found the stored tempo b.
BpmProducer(b) == IF b = FoundBpm("essentia") THEN "essentia" ELSE "librosa"

\* C24: every record's analysis_engine tag names the engine that produced
\* its stored non-zero bpm and its stored non-empty key.
C24_TagNamesProducer ==
    \A id \in DOMAIN collection :
        LET md == collection[id].metadata
        IN  /\ MetaGet(md, "bpm", 0) # 0 =>
                  MetaGet(md, "analysis_engine", "") = BpmProducer(md.bpm)
            /\ MetaGet(md, "key", "") # "" =>
                  MetaGet(md, "analysis_engine", "") = KeyProducer(md.key)

(***************************************************************************)
(* The stored key strings and the key filter.                              *)
(***************************************************************************)

\* The entries of the key_filter combo box other than "All".
KeyFilterValues ==
    {pitch_classes[n] \o " " \o mode : n \in 1..Len(pitch_classes), mode \in {"maj", "min"}}

\* `if sample_key != key_filter: continue` with the filter set to v
KeyFilterKeeps(sample_key, v) == sample_key = v

\* C25: every key string an estimator returns to be stored equals one of
\* the selectable values of the key filter, so the exact comparison of the
\* filter keeps a record with that key under some selection.
C25_KeySelectable ==
    kpc = "done" /\ key # None =>
        /\ Val(key) \in KeyFilterValues
        /\ \E v \in KeyFilterValues : KeyFilterKeeps(Val(key), v)

\* The same for the keys of the essentia estimator.
C25_EssentiaKeySelectable ==
    kpc = "done" /\ key # None /\ key_input.engine = "essentia" =>
        \E v \in KeyFilterValues : KeyFilterKeeps(Val(key), v)

(***************************************************************************)
(* What a re-analysis pass leaves alone.                                   *)
(***************************************************************************)

\* The metadata fields a pass may write.
AnalysedFields == {"bpm", "key", "analysis_engine"}

\* The metadata md without the fields a pass may write.
OtherFields(md) == [x \in DOMAIN md \ AnalysedFields |-> md[x]]

\* C26: during and after a re-analysis pass the store has the ids it had
\* when the pass started, every record has its embedding, its document and
\* its metadata fields other than bpm, key and analysis_engine as they were,
\* and a record the selection predicate of the pass does not match is
\* unchanged altogether.
C26_PassFrame ==
    ra_pc \in {"loop", "done"} =>
        /\ DOMAIN collection = DOMAIN ra_start
        /\ \A id \in DOMAIN ra_start :
              /\ collection[id].embedding = ra_start[id].embedding
              /\ collection[id].document = ra_start[id].document
              /\ OtherFields(collection[id].metadata) = OtherFields(ra_start[id].metadata)
              /\ ~Selected(ra_engine, force_reanalysis, ra_start[id].metadata) =>
                    collection[id] = ra_start[id]

\* C26 witness: a finished pass that changed a record and passed over a
\* library holding a record it did not select.
C26_Witness ==
    /\ ra_pc = "done"
    /\ \E id \in DOMAIN ra_start : collection[id] # ra_start[id]
    /\ \E id \in DOMAIN ra_start :
          ~Selected(ra_engine, force_reanalysis, ra_start[id].metadata)

(***************************************************************************)
(* The range of the stored tempo.                                          *)
(***************************************************************************)

\* A stored bpm (in tenths) that is 0 or lies in [40, 200].
ZeroOrInBand(b) == b = 0 \/ (BpmTicks(40) \div 2 <= b /\ b <= BpmTicks(200) \div 2)

\* The metadata a record holding the bpm `prior` gets from a pass of the
\* engine that made the estimate.
Reanalysed(prior) ==
    Merged(audio_engine,
           [filename |-> "kick.wav", bpm |-> prior, key |-> "", analysis_engine |-> "librosa"],
           [bpm |-> bpm, key |-> None])

\* C27: whatever base tempo the rhythm algorithm reports, the bpm that
\* run_indexing stores for the estimate, and the bpm a re-analysis pass
\* leaves in a record whose bpm was 0 or in [40, 200], is 0 or in [40, 200]:
\* never none, negative or out of the range.
C27_StoredBpmInBand ==
    tpc = "done" =>
        /\ audio_engine = "librosa" =>
              ZeroOrInBand(Metadata(<<"lib", "kick.wav">>, bpm, None).bpm)
        /\ \A prior \in {0, BpmTicks(40) \div 2, BpmTicks(200) \div 2} :
              ZeroOrInBand(Reanalysed(prior).bpm)

\* C27 witness: an out-of-range base tempo whose estimate is none, stored
\* as 0 by run_indexing and leaving a record's bpm as it was.
C27_Witness ==
    /\ tpc = "done" /\ audio_engine = "librosa" /\ base_bpm > 2 * (BpmTicks(200) \div 2)
    /\ bpm = None
    /\ Metadata(<<"lib", "kick.wav">>, bpm, None).bpm = 0
    /\ Reanalysed(BpmTicks(40) \div 2).bpm = BpmTicks(40) \div 2

\* C27 witness: a base tempo halved into the range and stored.
C27_WitnessStored ==
    /\ tpc = "done" /\ base_bpm > BpmTicks(200) \div 2 /\ bpm # None
    /\ Reanalysed(0).bpm = Val(bpm)

(***************************************************************************)
(* The candidate selection of the two engines.                             *)
(***************************************************************************)

\* C28: for every base tempo the candidate selection of the essentia
\* estimator returns what that of the librosa estimator returns, none for
\* the non-positive bases included; the estimate made is that result.
C28_SameSelection ==
    tpc = "done" =>
        /\ EssentiaTempo(base_bpm, tieUp) = LibrosaTempo(base_bpm, tieUp)
        /\ bpm = EssentiaTempo(base_bpm, tieUp)
        /\ base_bpm <= 0 => bpm = None

\* C28 witness: the essentia estimator on a non-positive base, where its
\* own guard and not the range filter gives none.
C28_Witness ==
    tpc = "done" /\ audio_engine = "essentia" /\ base_bpm <= 0 /\ bpm = None

\* C28 witness: the essentia estimator doubling a base below 80 BPM.
C28_WitnessDoubled ==
    /\ tpc = "done" /\ audio_engine = "essentia" /\ bpm # None
    /\ Val(bpm) > base_bpm /\ LibrosaTempo(base_bpm, tieUp) = bpm

(***************************************************************************)
(* The similarity percentage.                                              *)
(***************************************************************************)

\* Bound: the largest distance tried, in fiftieths (2.0 is 100).
MaxDistance == 220

\* The distances tried: from slightly below 0 to above 2.
Distances == (0 - 20)..MaxDistance

\* clamp(lo, hi, x)
Clamp(lo, hi, x) == IF x < lo THEN lo ELSE IF x > hi THEN hi ELSE x

\* The percentage over the distances tried: the clamped (1 - d/2) * 100,
\* within [0, 100], equal to (1 - d/2) * 100 for d in [0, 2], and not
\* increasing with d.
SimilarityLaw ==
    \A d \in Distances :
        /\ SimilarityPercent(d) = Clamp(0, 100, 100 - d)
        /\ SimilarityPercent(d) \in 0..100
        /\ (0 <= d /\ d <= 100) => SimilarityPercent(d) = 100 - d
        /\ \A e \in Distances : d <= e => SimilarityPercent(e) <= SimilarityPercent(d)

\* C29: the similarity percentage of a distance d is
\* clamp(0, 100, (1 - d/2) * 100): it lies in [0, 100], equals
\* (1 - d/2) * 100 for d in [0, 2] and does not increase with d; every
\* result listed carries that percentage of its record's distance.
C29_SimilarityClamped ==
    /\ SimilarityLaw
    /\ searched =>
          \A k \in 1..Len(Results) :
              \E n \in 1..Len(Fetched) :
                  /\ Fetched[n].route = Results[k].route
                  /\ Results[k].sim = Clamp(0, 100, 100 - Fetched[n].score)
                  /\ Results[k].sim \in 0..100

\* C29 witness: a search listed a record farther than 2 - the clamp acts -
\* at 0 percent, and a nearer record at its own percentage.
C29_Witness ==
    /\ searched
    /\ \E k \in 1..Len(Results) : \E n \in 1..Len(Fetched) :
          /\ Fetched[n].route = Results[k].route
          /\ Fetched[n].score > 100 /\ Results[k].sim = 0
    /\ \E k \in 1..Len(Results) : Results[k].sim \in 1..99

(***************************************************************************)
(* The number of records fetched.                                          *)
(***************************************************************************)

\* results_spinbox.setRange(1, 100): the largest result count.
ResultsMax == 100

\* The fetch count over the range of the result count.
FetchLaw ==
    \A top_k \in 1..ResultsMax :
        /\ FetchK(top_k) = Min(100, 3 * top_k)
        /\ FetchK(top_k) >= top_k

\* No filter of the panel is set.
NoFilterActive ==
    widgets = [DefaultWidgets EXCEPT !.query = widgets.query, !.top_k = widgets.top_k]

\* C30: for every result count top_k from 1 to 100 the fetch count is
\* min(100, 3 * top_k) and at least top_k, so a search with no filter set
\* lists min(top_k, number of records the store returned) results.
C30_FetchCoversTopK ==
    /\ FetchLaw
    /\ (searched /\ NoFilterActive) =>
          /\ Len(Fetched) = Min(FetchK(widgets.top_k), Cardinality(DOMAIN collection))
          /\ Len(Results) = Min(widgets.top_k, Len(Fetched))

\* C30 witness: with no filter set, a search cut the records fetched down to
\* the count asked for.
C30_Witness ==
    /\ searched /\ NoFilterActive
    /\ Len(Fetched) > widgets.top_k
    /\ Len(Results) = widgets.top_k

\* C30 witness: with no filter set, a search listed all the records of a
\* store holding fewer than the count asked for.
C30_WitnessAll ==
    /\ searched /\ NoFilterActive
    /\ Len(Fetched) > 0 /\ Len(Fetched) < widgets.top_k
    /\ Len(Results) = Len(Fetched)

====
